---- MODULE Spec2Model ----
(***************************************************************************)
(* Panel visibility / capture lifecycle coordinator of haruka-webgl:       *)
(* PanelCanvas (components/PanelCanvas.tsx), the visibility engine         *)
(* (lib/layout/visibility.ts), CaptureManager (lib/capture) and the        *)
(* bridge adapter (lib/unity.ts).                                          *)
(***************************************************************************)
EXTENDS Integers, Sequences, FiniteSets, TLC

VARIABLES
    phase,                    \* "constructed" | "mounted" | "unmounted"
    range,                    \* container scroll window <<top, bottom>>
    previousVisiblePanelIds,  \* ref: set of panel ids
    visiblePanelIds,          \* React state: set of panel ids
    activeUnityIndexes,       \* ref: set of stream indexes
    unityStopTimers,          \* ref: Map index -> timer handle (0 = no entry)
    liveStopTimers,           \* browser timer table: pending 500 ms timeouts
    graceTimers,              \* pending 5 s timeouts, per index, oldest first
    unityImagesRef,           \* ref: Map index -> img.src (0 = no entry)
    latestByIndex,            \* CaptureManager.latestByIndex (0 = no entry)
    needsRedraw,              \* React state
    animationFrameRef,        \* TRUE = the ref holds a frame request handle
    rafTable,                 \* browser: number of pending render callbacks
    stateQueue,               \* React: setNeedsRedraw updates not yet committed
    rafId,                    \* TRUE = handleScroll's rafId is not null
    scrollFrames,             \* browser: number of pending scroll callbacks
    initialCheckTimer,        \* TRUE = the 100 ms initial timer is pending
    unityCheckInterval,       \* TRUE = the 500 ms poll interval is live
    unityCheckAttempts,
    readyTimeouts,            \* pending 100 ms timeouts of handleBridgeReady
    unityInstance,            \* window.unityInstance is set
    sendThrows,               \* the instance's SendMessage throws when called
    isBridgeReady,            \* window.isBridgeReady
    installed,                \* install-receiver.ts: installed
    listening,                \* the onImage listener is in captureManager.listeners
    cmHasVisible,             \* CaptureManager.hasVisible
    cmTimer,                  \* CaptureManager.timer !== null
    log,                      \* history: what the last handler sent and did
    hist,                     \* history: ratio/flag trace of WatchedPanel
    lastDelivered,            \* history: last frame delivered per index
    owed,                     \* history: a redraw was requested and not painted
    status,                   \* HiddenUnityHost state: idle|loading|ready|error
    error,                    \* HiddenUnityHost state: message, NoError = null
    hasInitialized,           \* HiddenUnityHost ref
    attempts,                 \* one closure per run of the init effect
    probe,                    \* history: the last ratio call and its results
    imgComplete,              \* per index: HTMLImageElement.complete of the stored image
    painted,                  \* history: frame the last paint drew per index (0 = none)
    drawn,                    \* history: the last drawScene call, its list and its draw order
    lastCommand,              \* history: per index, the last capture command the renderer took
    isTabVisible,             \* CaptureManager.isTabVisible
    cmIntervalMs,               \* CaptureManager.intervalMs
    cmIntervals,              \* interval timers of CaptureManager.start not yet cleared
    strictMode,               \* the page runs a development build with reactStrictMode
    fired,                    \* history: onPanelEnter / onPanelLeave calls of the latest recomputation
    lastEvent,                \* history: the last callback fired for each panel
    callbacksGiven,           \* the onPanelEnter / onPanelLeave props are passed
    receiver                  \* window.onUnityImageReceived: none, bridge or other

vars == <<phase, range, previousVisiblePanelIds, visiblePanelIds,
          activeUnityIndexes, unityStopTimers, liveStopTimers, graceTimers,
          unityImagesRef, latestByIndex, needsRedraw, animationFrameRef,
          rafId, initialCheckTimer, unityCheckInterval, unityCheckAttempts,
          readyTimeouts, unityInstance, isBridgeReady, installed, listening,
          cmHasVisible, cmTimer, log, hist, lastDelivered, rafTable,
          stateQueue, owed, scrollFrames, sendThrows,
          status, error, hasInitialized, attempts, probe, imgComplete, painted, drawn,
          lastCommand, isTabVisible, cmIntervalMs, cmIntervals, strictMode, fired, lastEvent, callbacksGiven, receiver>>

----------------------------------------------------------------------------
(* Bounds *)

MaxEffects == 2       \* runs of the init effect (StrictMode runs it twice)
MaxAttempts == 2      \* poll attempts before giving up (360 in the source)
MaxGrace == 1         \* pending 5 s grace timers per stream index
MaxHist == 5          \* length of the recorded ratio trace
MaxQueue == 3         \* state updates queued between two React commits

Indexes == {0, 1, 2}
Frames == {1, 2}
FrameIndexes == {0, 1}   \* stream indexes for which frames are delivered
NoError == "null"
TimedOut == "Unity initialization timed out after 90 seconds"
LoadFailed == "Unity load failed"
MalformedFrame == 3      \* a frame whose base64 data is not a decodable image
Tokens == 1 .. 2
Intervals == {250, 500}  \* capture intervals handed to the adapter

----------------------------------------------------------------------------
(* Scene and inputs *)

Unity(i) == [type |-> "unity", index |-> i]
ImageSrc == [type |-> "image", index |-> 0]

NoProbe == [called |-> FALSE]
\* panels, windows and viewport widths handed to the ratio function
ProbePanels ==
    [id : {"p"}, x : {0, 50}, y : {40}, width : {-20, 0, 100},
     height : {0, 60}, source : {ImageSrc}]
ProbeRanges == {<<0, 0>>, <<70, 70>>, <<0, 100>>, <<60, 160>>, <<90, 50>>}
ProbeWidths == {0, 100}
ZeroRanges == {<<0, 0>>, <<170, 170>>}   \* windows of a container of height 0

NoDraw == [called |-> FALSE]
\* panel lists handed to drawScene: zIndex is <<>> when the panel has none
DrawPanel(id) == [id : {id}, y : {0, 10}, zIndex : {<<>>, <<-1>>, <<1>>}]
DrawLists ==
    {<<p, q, r>> : p \in DrawPanel("p"), q \in DrawPanel("q"), r \in DrawPanel("r")}

\* A column of four live panels, "a" and "d" showing the same stream 0, and a
\* static image panel "e" that is half outside the viewport width.
scene ==
    [viewportWidth |-> 100,
     panels |-> << [id |-> "a", x |-> 0, y |-> 0,   width |-> 100, height |-> 100, source |-> Unity(0)],
                   [id |-> "b", x |-> 0, y |-> 100, width |-> 100, height |-> 100, source |-> Unity(1)],
                   [id |-> "c", x |-> 0, y |-> 200, width |-> 100, height |-> 100, source |-> Unity(2)],
                   [id |-> "d", x |-> 0, y |-> 300, width |-> 100, height |-> 100, source |-> Unity(0)],
                   [id |-> "e", x |-> 50, y |-> 150, width |-> 100, height |-> 100, source |-> ImageSrc] >>]

PanelIds == {scene.panels[k].id : k \in 1 .. Len(scene.panels)}

\* scrollTop values of a container with clientHeight 100, and one tall window
VisibleRanges ==
    {<<0, 100>>, <<60, 160>>, <<150, 250>>, <<250, 350>>, <<0, 400>>}

\* windows sliding over the top edge of panel "b"
HystRanges == {<<5, 105>>, <<30, 130>>, <<60, 160>>}

\* two windows with disjoint sets of visible streams
FarRanges == {<<0, 100>>, <<150, 250>>}

----------------------------------------------------------------------------
(* lib/layout/visibility.ts *)

Max(a, b) == IF a >= b THEN a ELSE b
Min(a, b) == IF a <= b THEN a ELSE b

\* Variant without the clamps: an overlap may be negative.
rectIntersectionArea_Signed(a, b) ==
    LET xOverlap == Min(a.x + a.width, b.x + b.width) - Max(a.x, b.x)
        yOverlap == Min(a.y + a.height, b.y + b.height) - Max(a.y, b.y)
    IN  xOverlap * yOverlap

rectIntersectionArea(a, b) ==
    LET xOverlap == Max(0, Min(a.x + a.width, b.x + b.width) - Max(a.x, b.x))
        yOverlap == Max(0, Min(a.y + a.height, b.y + b.height) - Max(a.y, b.y))
    IN  xOverlap * yOverlap

\* The ratio is the fraction num/den with den > 0: Math.min(1, area ratio),
\* the sign of a negative panel area moved to the numerator.
calculateVisibilityRatio(panel, visibleRange, viewportWidth) ==
    LET panelRect == [x |-> panel.x, y |-> panel.y,
                      width |-> panel.width, height |-> panel.height]
        viewportRect == [x |-> 0, y |-> visibleRange[1], width |-> viewportWidth,
                         height |-> visibleRange[2] - visibleRange[1]]
        intersectionArea == rectIntersectionArea(panelRect, viewportRect)
        panelArea == panelRect.width * panelRect.height
    IN  IF panelArea = 0 THEN [num |-> 0, den |-> 1]
        ELSE IF panelArea > 0
        THEN [num |-> Min(panelArea, intersectionArea), den |-> panelArea]
        ELSE [num |-> Min(-panelArea, -intersectionArea), den |-> -panelArea]

\* thresholds are given in thousandths: 0.1 is 100, 0.5 is 500
LowThreshold == 100
HighThreshold == 500

getVisiblePanels(panels, visibleRange, viewportWidth, threshold) ==
    SelectSeq(panels,
        LAMBDA panel :
            LET ratio == calculateVisibilityRatio(panel, visibleRange, viewportWidth)
            IN  ratio.num * 1000 >= threshold * ratio.den)

----------------------------------------------------------------------------
(* lib/unity.ts *)

\* Variant without the instance check: SendMessage is called on nothing.
sendMessageToUnity_NoGuard(inst, gameObjectName, methodName, param, index, intervalMs) ==
    [c |-> methodName, i |-> index, ms |-> intervalMs,
     sent |-> inst.exists /\ ~inst.throws,
     thrown |-> ~inst.exists \/ inst.throws,
     target |-> gameObjectName, payload |-> param, bridgeWarning |-> FALSE]

\* What a call of sendMessageToUnity leaves behind: the arguments handed to
\* instance.SendMessage, whether an instance existed to take them (otherwise
\* the call is dropped with a warning), and whether SendMessage threw, which
\* sendMessageToUnity logs and throws on.  i and ms keep the numbers the
\* caller was given.
sendMessageToUnity(inst, gameObjectName, methodName, param, index, intervalMs) ==
    [c |-> methodName, i |-> index, ms |-> intervalMs,
     sent |-> inst.exists /\ ~inst.throws,
     thrown |-> inst.exists /\ inst.throws,
     target |-> gameObjectName, payload |-> param, bridgeWarning |-> FALSE]

\* Variant of startUnityCapture with another separator.
startUnityCapture_Comma(inst, index, args) ==
    LET intervalMs == IF args = <<>> THEN 500 ELSE args[1]
        payload == "index=" \o ToString(index) \o ",intervalMs="
                       \o ToString(intervalMs)
    IN  [sendMessageToUnity(inst, "Bridge", "StartCapture", payload, index,
                            intervalMs)
            EXCEPT !.bridgeWarning = ~inst.bridge]

\* Variant that waits for the bridge: without readiness nothing is sent.
startUnityCapture_Gated(inst, index, args) ==
    LET intervalMs == IF args = <<>> THEN 500 ELSE args[1]
        payload == "index=" \o ToString(index) \o ";intervalMs="
                       \o ToString(intervalMs)
        call == sendMessageToUnity(inst, "Bridge", "StartCapture", payload,
                                   index, intervalMs)
    IN  IF inst.bridge THEN call
        ELSE [call EXCEPT !.sent = FALSE, !.thrown = FALSE,
                          !.bridgeWarning = TRUE]

\* args is <<>> when the caller leaves intervalMs out, <<m>> otherwise.  A
\* call made while window.isBridgeReady is unset logs a warning and goes on.
startUnityCapture(inst, index, args) ==
    LET intervalMs == IF args = <<>> THEN 500 ELSE args[1]
        payload == "index=" \o ToString(index) \o ";intervalMs="
                       \o ToString(intervalMs)
    IN  [sendMessageToUnity(inst, "Bridge", "StartCapture", payload, index,
                            intervalMs)
            EXCEPT !.bridgeWarning = ~inst.bridge]

stopUnityCapture(inst, index) ==
    LET payload == "index=" \o ToString(index)
    IN  sendMessageToUnity(inst, "Bridge", "StopCapture", payload, index, 0)

setUnityCaptureInterval(inst, index, intervalMs) ==
    LET payload == "index=" \o ToString(index) \o ";intervalMs="
                       \o ToString(intervalMs)
    IN  sendMessageToUnity(inst, "Bridge", "SetInterval", payload, index,
                           intervalMs)

\* Bookkeeping events of a handler that send nothing.
Note(what, index) ==
    [c |-> what, i |-> index, ms |-> 0, sent |-> FALSE, thrown |-> FALSE,
     target |-> "", payload |-> "", bridgeWarning |-> FALSE]

\* Entry that opens the events of one updateVisibleRange call.
PassMark == Note("pass", -1)

\* Entry for the reset of the active-stream bookkeeping.
ResetMark == Note("reset", -1)

\* The commands issued so far, after the events ev of one handler: for each
\* index the last startUnityCapture or stopUnityCapture call made for it.
Replay(last, ev) ==
    [i \in Indexes |->
        LET hits == {n \in 1 .. Len(ev) :
                        /\ ev[n].c \in {"StartCapture", "StopCapture"}
                        /\ ev[n].i = i}
        IN  IF hits = {} THEN last[i]
            ELSE ev[CHOOSE n \in hits : \A m \in hits : m <= n].c]

----------------------------------------------------------------------------
(* components/PanelCanvas.tsx: updateVisibleRange *)

\* Variant without memory: every panel is held to the entry threshold.
NewVisibleIds_NoMemory(prior, rng) ==
    {scene.panels[k].id : k \in
        {j \in 1 .. Len(scene.panels) :
            Len(getVisiblePanels(<<scene.panels[j]>>, rng, scene.viewportWidth,
                                 HighThreshold)) > 0}}

\* Hysteresis: one getVisiblePanels call per panel, threshold by prior state.
NewVisibleIds(prior, rng) ==
    {scene.panels[k].id : k \in
        {j \in 1 .. Len(scene.panels) :
            LET panel == scene.panels[j]
                wasVisible == panel.id \in prior
                threshold == IF wasVisible THEN LowThreshold ELSE HighThreshold
            IN  Len(getVisiblePanels(<<panel>>, rng, scene.viewportWidth, threshold)) > 0}}

RECURSIVE CollectIndexes(_, _, _)
\* Insertion order of a Set<number> filled while walking scene.panels.
CollectIndexes(k, ids, acc) ==
    IF k > Len(scene.panels) THEN acc
    ELSE LET p == scene.panels[k]
             hit == p.source.type = "unity" /\ p.id \in ids
                    /\ p.source.index \notin {acc[n] : n \in 1 .. Len(acc)}
         IN  CollectIndexes(k + 1, ids, IF hit THEN Append(acc, p.source.index) ELSE acc)

\* Variant that knows an index only through the first panel that shows it.
NewVisibleUnityIndexes_FirstPanel(ids) ==
    CollectIndexes(1, {id \in ids : \E k \in 1 .. Len(scene.panels) :
                          /\ scene.panels[k].id = id
                          /\ \A j \in 1 .. k - 1 :
                                scene.panels[j].source # scene.panels[k].source},
                   <<>>)

NewVisibleUnityIndexes(ids) == CollectIndexes(1, ids, <<>>)

SeqRange(s) == {s[n] : n \in 1 .. Len(s)}

\* Iteration order of a set of indexes that was filled in panel order.
InsertionOrder(S) ==
    SelectSeq(NewVisibleUnityIndexes(PanelIds), LAMBDA i : i \in S)

\* setTimeout returns a handle that no pending timer of that index uses.
NewHandle(live, index) ==
    CHOOSE t \in Tokens :
        /\ <<index, t>> \notin live
        /\ \A u \in Tokens : u < t => <<index, u>> \in live

RECURSIVE StartLoop_Restart(_, _, _, _, _)
\* Variant that also restarts a stream whose stop timer it cancels.
StartLoop_Restart(k, order, prevIndexes, inst, st) ==
    IF k > Len(order) \/ st.thrown THEN st
    ELSE LET index == order[k]
             existingTimer == st.timers[index]
             start == startUnityCapture(inst, index, <<500>>)
             nxt ==
               IF index \in prevIndexes THEN st
               ELSE IF existingTimer # 0
                    THEN [st EXCEPT !.live = @ \ {<<index, existingTimer>>},
                                    !.timers[index] = 0,
                                    !.ev = Append(Append(@, Note("cancel", index)),
                                                  start),
                                    !.thrown = start.thrown]
                    ELSE [st EXCEPT !.ev = Append(@, start),
                                    !.thrown = start.thrown]
         IN  StartLoop_Restart(k + 1, order, prevIndexes, inst, nxt)

RECURSIVE StartLoop_NoCancel(_, _, _, _, _)
\* Variant that leaves the stop timer of a returning index pending.
StartLoop_NoCancel(k, order, prevIndexes, inst, st) ==
    IF k > Len(order) \/ st.thrown THEN st
    ELSE LET index == order[k]
             existingTimer == st.timers[index]
             start == startUnityCapture(inst, index, <<500>>)
             nxt ==
               IF index \in prevIndexes THEN st
               ELSE IF existingTimer # 0
                    THEN [st EXCEPT !.ev = Append(@, Note("cancel", index))]
                    ELSE [st EXCEPT !.ev = Append(@, start),
                                    !.thrown = start.thrown]
         IN  StartLoop_NoCancel(k + 1, order, prevIndexes, inst, nxt)

RECURSIVE StartLoop_Swapped(_, _, _, _, _)
\* Variant with the two branches exchanged: it starts a stream whose stop
\* timer it cancels and stays silent for one that has no timer.
StartLoop_Swapped(k, order, prevIndexes, inst, st) ==
    IF k > Len(order) \/ st.thrown THEN st
    ELSE LET index == order[k]
             existingTimer == st.timers[index]
             start == startUnityCapture(inst, index, <<500>>)
             nxt ==
               IF index \in prevIndexes THEN st
               ELSE IF existingTimer # 0
                    THEN [st EXCEPT !.live = @ \ {<<index, existingTimer>>},
                                    !.timers[index] = 0,
                                    !.ev = Append(Append(@, Note("cancel", index)),
                                                  start),
                                    !.thrown = start.thrown]
                    ELSE st
         IN  StartLoop_Swapped(k + 1, order, prevIndexes, inst, nxt)

RECURSIVE StartLoop(_, _, _, _, _)
\* newVisibleUnityIndexes.forEach: start, or cancel a pending stop timer.
\* A throw out of startUnityCapture ends the loop.
StartLoop(k, order, prevIndexes, inst, st) ==
    IF k > Len(order) \/ st.thrown THEN st
    ELSE LET index == order[k]
             existingTimer == st.timers[index]
             start == startUnityCapture(inst, index, <<500>>)
             nxt ==
               IF index \in prevIndexes THEN st
               ELSE IF existingTimer # 0
                    THEN [st EXCEPT !.live = @ \ {<<index, existingTimer>>},
                                    !.timers[index] = 0,
                                    !.ev = Append(@, Note("cancel", index))]
                    ELSE [st EXCEPT !.ev = Append(@, start),
                                    !.thrown = start.thrown]
         IN  StartLoop(k + 1, order, prevIndexes, inst, nxt)

RECURSIVE StopLoop_All(_, _, _, _)
\* Variant that arms a stop timer for every previously active index.
StopLoop_All(k, order, newIndexes, st) ==
    IF k > Len(order) THEN st
    ELSE LET index == order[k]
             existingTimer == st.timers[index]
             cleared == IF existingTimer # 0
                        THEN st.live \ {<<index, existingTimer>>} ELSE st.live
             timer == NewHandle(cleared, index)
             nxt == [st EXCEPT !.live = cleared \cup {<<index, timer>>},
                               !.timers[index] = timer,
                               !.ev = Append(@, Note("schedule", index))]
         IN  StopLoop_All(k + 1, order, newIndexes, nxt)

RECURSIVE StopLoop(_, _, _, _)
\* prevIndexes.forEach: replace the stop timer of every index that left.
StopLoop(k, order, newIndexes, st) ==
    IF k > Len(order) THEN st
    ELSE LET index == order[k]
             existingTimer == st.timers[index]
             cleared == IF existingTimer # 0
                        THEN st.live \ {<<index, existingTimer>>} ELSE st.live
             timer == NewHandle(cleared, index)
             nxt ==
               IF index \in newIndexes THEN st
               ELSE [st EXCEPT !.live = cleared \cup {<<index, timer>>},
                               !.timers[index] = timer,
                               !.ev = Append(@, Note("schedule", index))]
         IN  StopLoop(k + 1, order, newIndexes, nxt)

\* CaptureManager.start: one interval timer, unless one runs or the renderer
\* instance is missing.
CaptureManager_start(cm, inst) ==
    IF cm.timer THEN cm
    ELSE IF ~inst.exists THEN cm
    ELSE [cm EXCEPT !.timer = TRUE, !.live = @ + 1]

\* Variant of stop that drops the handle without clearing the interval.
CaptureManager_stop_NoClear(cm) ==
    IF ~cm.timer THEN cm
    ELSE [cm EXCEPT !.timer = FALSE]

\* CaptureManager.stop: clear the interval timer the field names.
CaptureManager_stop(cm) ==
    IF ~cm.timer THEN cm
    ELSE [cm EXCEPT !.timer = FALSE, !.live = @ - 1]

\* CaptureManager.setVisibleState: start() or stop().
setVisibleState(cm, hasVisible, inst) ==
    LET c == [cm EXCEPT !.hasVisible = hasVisible]
    IN  IF hasVisible /\ c.tab THEN CaptureManager_start(c, inst)
        ELSE CaptureManager_stop(c)

\* Variant that runs the stop loop before the start loop.
updateVisibleRange_StopFirst(st, rng, inst) ==
    LET newVisibleIds == NewVisibleIds(st.prev, rng)
        order == NewVisibleUnityIndexes(newVisibleIds)
        newIndexes == SeqRange(order)
        prevIndexes == st.active
        s0 == [timers |-> st.timers, live |-> st.live, ev |-> <<PassMark>>,
               thrown |-> FALSE]
        s1 == StopLoop(1, InsertionOrder(prevIndexes), newIndexes, s0)
        s2 == StartLoop(1, order, prevIndexes, inst, s1)
    IN  [prev |-> newVisibleIds,
         active |-> newIndexes,
         timers |-> s2.timers,
         live |-> s2.live,
         cm |-> setVisibleState(st.cm, newIndexes # {}, inst),
         ev |-> s2.ev,
         thrown |-> FALSE]

\* Variant that keeps an index recorded until something removes it.
updateVisibleRange_Sticky(st, rng, inst) ==
    LET newVisibleIds == NewVisibleIds(st.prev, rng)
        order == NewVisibleUnityIndexes(newVisibleIds)
        newIndexes == SeqRange(order)
        prevIndexes == st.active
        s0 == [timers |-> st.timers, live |-> st.live, ev |-> <<PassMark>>,
               thrown |-> FALSE]
        s1 == StartLoop(1, order, prevIndexes, inst, s0)
        s2 == StopLoop(1, InsertionOrder(prevIndexes), newIndexes, s1)
    IN  [prev |-> newVisibleIds,
         active |-> prevIndexes \cup newIndexes,
         timers |-> s2.timers,
         live |-> s2.live,
         cm |-> setVisibleState(st.cm, newIndexes # {}, inst),
         ev |-> s2.ev,
         thrown |-> FALSE]

\* One recomputation.  st carries the refs the pass reads and writes.  A throw
\* out of the start loop ends the call there: the prior visible ids are
\* already written, the stop loop and the lines after it are not reached.
updateVisibleRange(st, rng, inst) ==
    LET newVisibleIds == NewVisibleIds(st.prev, rng)
        order == NewVisibleUnityIndexes(newVisibleIds)
        newIndexes == SeqRange(order)
        prevIndexes == st.active
        s0 == [timers |-> st.timers, live |-> st.live, ev |-> <<PassMark>>,
               thrown |-> FALSE]
        s1 == StartLoop(1, order, prevIndexes, inst, s0)
        s2 == IF s1.thrown THEN s1
              ELSE StopLoop(1, InsertionOrder(prevIndexes), newIndexes, s1)
    IN  [prev |-> newVisibleIds,
         active |-> IF s1.thrown THEN st.active ELSE newIndexes,
         timers |-> s2.timers,
         live |-> s2.live,
         cm |-> IF s1.thrown THEN st.cm
                ELSE setVisibleState(st.cm, newIndexes # {}, inst),
         ev |-> IF s1.thrown THEN Append(s1.ev, Note("uncaught", -1)) ELSE s2.ev,
         thrown |-> s1.thrown]

----------------------------------------------------------------------------
(* State *)

WatchedPanel == "b"

NoHandles == [i \in Indexes |-> 0]

Init ==
    /\ phase = "constructed"
    /\ range \in VisibleRanges
    /\ previousVisiblePanelIds = {}
    /\ visiblePanelIds = {}
    /\ activeUnityIndexes = {}
    /\ unityStopTimers = NoHandles
    /\ liveStopTimers = {}
    /\ graceTimers = [i \in Indexes |-> <<>>]
    /\ unityImagesRef = [i \in Indexes |-> 0]
    /\ latestByIndex = [i \in Indexes |-> 0]
    /\ needsRedraw = TRUE
    /\ animationFrameRef = FALSE
    /\ rafId = FALSE
    /\ initialCheckTimer = FALSE
    /\ unityCheckInterval = FALSE
    /\ unityCheckAttempts = 0
    /\ readyTimeouts = 0
    /\ unityInstance = FALSE
    /\ isBridgeReady = FALSE
    /\ installed = FALSE
    /\ listening = FALSE
    /\ cmHasVisible = FALSE
    /\ cmTimer = FALSE
    /\ log = <<>>
    /\ hist = [start |-> FALSE, trace |-> <<>>]
    /\ lastDelivered = [i \in Indexes |-> 0]
    /\ rafTable = 0
    /\ stateQueue = <<>>
    /\ owed = FALSE
    /\ scrollFrames = 0
    /\ sendThrows = FALSE
    /\ status = "idle"
    /\ error = NoError
    /\ hasInitialized = FALSE
    /\ attempts = <<>>
    /\ probe = NoProbe
    /\ imgComplete = [i \in Indexes |-> FALSE]
    /\ painted = [i \in Indexes |-> 0]
    /\ drawn = NoDraw
    /\ lastCommand = [i \in Indexes |-> "none"]
    /\ isTabVisible = TRUE
    /\ cmIntervalMs = 500
    /\ cmIntervals = 0
    /\ strictMode = FALSE
    /\ fired = <<>>
    /\ lastEvent = [id \in PanelIds |-> "none"]
    /\ callbacksGiven = FALSE
    /\ receiver = "none"

\* window.unityInstance as a caller finds it.
Instance ==
    [exists |-> unityInstance, throws |-> sendThrows, bridge |-> isBridgeReady]

\* install-receiver.ts: the module's flag and the window property it assigns.
Bridge == [installed |-> installed, receiver |-> receiver]

\* Variant that assigns the handler on every call made in a browser.
installUnityReceiverBridge_Reinstall(b, hasWindow) ==
    IF ~hasWindow THEN b
    ELSE [installed |-> TRUE, receiver |-> "bridge"]

\* installUnityReceiverBridge, called where a window exists or not.
installUnityReceiverBridge(b, hasWindow) ==
    IF b.installed THEN b
    ELSE IF ~hasWindow THEN b
    ELSE [installed |-> TRUE, receiver |-> "bridge"]

\* The CaptureManager singleton.
CM ==
    [hasVisible |-> cmHasVisible, timer |-> cmTimer, tab |-> isTabVisible,
     live |-> cmIntervals, ms |-> cmIntervalMs]

\* The refs a recomputation works on.
Refs ==
    [prev |-> previousVisiblePanelIds, active |-> activeUnityIndexes,
     timers |-> unityStopTimers, live |-> liveStopTimers,
     cm |-> CM]

\* Every pending grace timer of a stream that is active again has seen a
\* reactivation (history bit carried by the timer).
MarkReactivated(grace, active) ==
    [i \in Indexes |->
        IF i \in active
        THEN [n \in 1 .. Len(grace[i]) |-> [reactivated |-> TRUE]]
        ELSE grace[i]]

\* The render-loop effect run by a commit in which needsRedraw or drawCanvas
\* changed: the cleanup returned by the previous run (only a run that saw
\* needsRedraw returned one) cancels the pending request, then the body
\* requests a frame when needsRedraw is set and the ref is null.
renderLoopEffect(prevNeeds, needs, ref, table) ==
    LET cleaned == IF prevNeeds /\ ref
                   THEN [ref |-> FALSE, table |-> table - 1]
                   ELSE [ref |-> ref, table |-> table]
    IN  IF needs /\ ~cleaned.ref
        THEN [ref |-> TRUE, table |-> cleaned.table + 1]
        ELSE cleaned

\* Iteration order of a Set of panel ids that was filled in panel order.
PanelOrder(S) ==
    SelectSeq([k \in 1 .. Len(scene.panels) |-> scene.panels[k].id],
              LAMBDA id : id \in S)

\* The microtask queued by the setVisiblePanelIds updater: onPanelEnter?.(id)
\* for every id that is new, then onPanelLeave?.(id) for every id that is gone.
panelCallbacks(prevVisibleIds, newVisibleIds) ==
    LET entered == PanelOrder(newVisibleIds \ prevVisibleIds)
        left == PanelOrder(prevVisibleIds \ newVisibleIds)
    IN  [n \in 1 .. Len(entered) |-> [cb |-> "enter", id |-> entered[n]]]
        \o [n \in 1 .. Len(left) |-> [cb |-> "leave", id |-> left[n]]]

\* React calls the updater while it renders: once, and once more when the
\* render is repeated by StrictMode; every call queues its own microtask.
updaterCalls(prevVisibleIds, newVisibleIds, strict) ==
    LET once == panelCallbacks(prevVisibleIds, newVisibleIds)
    IN  IF strict THEN once \o once ELSE once

\* The last callback of each panel after the calls ev.
LastFired(last, ev) ==
    [id \in PanelIds |->
        LET hits == {n \in 1 .. Len(ev) : ev[n].id = id}
        IN  IF hits = {} THEN last[id]
            ELSE ev[CHOOSE n \in hits : \A m \in hits : m <= n].cb]

\* Writes of one recomputation r: the refs, setVisiblePanelIds,
\* setNeedsRedraw(true), and the render effect re-armed by the new drawCanvas.
ApplyPass(r) ==
    /\ previousVisiblePanelIds' = r.prev
    /\ visiblePanelIds' = r.prev
    /\ fired' = IF callbacksGiven
                THEN updaterCalls(visiblePanelIds, r.prev, strictMode)
                ELSE <<>>
    /\ lastEvent' = LastFired(lastEvent, fired')
    /\ activeUnityIndexes' = r.active
    /\ unityStopTimers' = r.timers
    /\ liveStopTimers' = r.live
    /\ cmHasVisible' = r.cm.hasVisible
    /\ cmTimer' = r.cm.timer
    /\ cmIntervals' = r.cm.live
    /\ graceTimers' = MarkReactivated(graceTimers, r.active)
    /\ needsRedraw' = (needsRedraw \/ ~r.thrown)
    /\ LET e == renderLoopEffect(needsRedraw, needsRedraw \/ ~r.thrown,
                                 animationFrameRef, rafTable)
       IN  animationFrameRef' = e.ref /\ rafTable' = e.table
    /\ owed' = (owed \/ ~r.thrown)
    /\ UNCHANGED stateQueue

----------------------------------------------------------------------------
(* Handlers *)

\* Mount effects: receiver bridge and listener, then handleResize() and
\* updateVisibleRange(), the 100 ms timer, the poll and the ready listener.
Mount ==
    /\ phase = "constructed"
    /\ phase' = "mounted"
    /\ LET b == installUnityReceiverBridge(Bridge, TRUE)
       IN  installed' = b.installed /\ receiver' = b.receiver
    /\ listening' = TRUE
    /\ LET r1 == updateVisibleRange(Refs, range, Instance)
           r2 == updateVisibleRange(r1, range, Instance)
       IN  /\ ApplyPass(r2)
           /\ log' = r1.ev \o r2.ev
    /\ initialCheckTimer' = TRUE
    /\ unityCheckInterval' = TRUE
    /\ unityCheckAttempts' = 0
    /\ UNCHANGED <<range, unityImagesRef, latestByIndex, rafId, scrollFrames, readyTimeouts,
                   unityInstance, sendThrows, status, error, hasInitialized, attempts, probe, imgComplete, painted, callbacksGiven, strictMode, cmIntervalMs, isTabVisible, drawn, isBridgeReady, hist, lastDelivered>>
    /\ lastCommand' = Replay(lastCommand, log')

\* Variant of handleScroll that requests a frame for every scroll event.
Scroll_EveryEvent(r) ==
    /\ phase = "mounted"
    /\ r # range
    /\ range' = r
    /\ rafId' = TRUE
    /\ scrollFrames' = scrollFrames + 1
    /\ log' = <<>>
    /\ UNCHANGED <<phase, previousVisiblePanelIds, visiblePanelIds, fired, lastEvent,
                   activeUnityIndexes, unityStopTimers, liveStopTimers,
                   graceTimers, unityImagesRef, latestByIndex, needsRedraw,
                   animationFrameRef, rafTable, stateQueue, owed, initialCheckTimer, unityCheckInterval,
                   unityCheckAttempts, readyTimeouts, unityInstance, sendThrows, status, error, hasInitialized, attempts, probe, imgComplete, painted, receiver, callbacksGiven, strictMode, cmIntervalMs, isTabVisible, drawn,
                   isBridgeReady, installed, listening, cmHasVisible, cmTimer, cmIntervals,
                   hist, lastDelivered>>
    /\ lastCommand' = Replay(lastCommand, log')

\* A scroll event: the container moves, handleScroll requests one frame.
Scroll(r) ==
    /\ phase = "mounted"
    /\ r # range
    /\ range' = r
    /\ rafId' = TRUE
    /\ scrollFrames' = IF rafId THEN scrollFrames ELSE scrollFrames + 1
    /\ log' = <<>>
    /\ UNCHANGED <<phase, previousVisiblePanelIds, visiblePanelIds, fired, lastEvent,
                   activeUnityIndexes, unityStopTimers, liveStopTimers,
                   graceTimers, unityImagesRef, latestByIndex, needsRedraw,
                   animationFrameRef, rafTable, stateQueue, owed, initialCheckTimer, unityCheckInterval,
                   unityCheckAttempts, readyTimeouts, unityInstance, sendThrows, status, error, hasInitialized, attempts, probe, imgComplete, painted, receiver, callbacksGiven, strictMode, cmIntervalMs, isTabVisible, drawn,
                   isBridgeReady, installed, listening, cmHasVisible, cmTimer, cmIntervals,
                   hist, lastDelivered>>
    /\ lastCommand' = Replay(lastCommand, log')

\* The animation frame requested by handleScroll.
ScrollFrame ==
    /\ scrollFrames > 0
    /\ phase = "mounted"
    /\ scrollFrames' = scrollFrames - 1
    /\ LET r == updateVisibleRange(Refs, range, Instance)
       IN  /\ ApplyPass(r)
           /\ log' = r.ev
           /\ rafId' = r.thrown
    /\ UNCHANGED <<phase, range, unityImagesRef, latestByIndex,
                   initialCheckTimer, unityCheckInterval, unityCheckAttempts,
                   readyTimeouts, unityInstance, sendThrows, status, error, hasInitialized, attempts, probe, imgComplete, painted, receiver, callbacksGiven, strictMode, cmIntervalMs, isTabVisible, drawn, isBridgeReady, installed,
                   listening, hist, lastDelivered>>
    /\ lastCommand' = Replay(lastCommand, log')

ResizeCore(rng) ==
    /\ phase = "mounted"
    /\ range' = rng
    /\ LET r == updateVisibleRange(Refs, rng, Instance)
       IN  /\ ApplyPass(r)
           /\ log' = r.ev
    /\ UNCHANGED <<phase, unityImagesRef, latestByIndex, rafId, scrollFrames,
                   initialCheckTimer, unityCheckInterval, unityCheckAttempts,
                   readyTimeouts, unityInstance, sendThrows, status, error, hasInitialized, attempts, probe, imgComplete, painted, receiver, callbacksGiven, strictMode, cmIntervalMs, isTabVisible, drawn, isBridgeReady, installed,
                   listening, lastDelivered>>
    /\ lastCommand' = Replay(lastCommand, log')

\* handleResize: new scale and window, then a recomputation.
Resize(rng) == ResizeCore(rng) /\ UNCHANGED hist

\* The delayed initial check, 100 ms after mount.
InitialCheck ==
    /\ initialCheckTimer
    /\ phase = "mounted"
    /\ initialCheckTimer' = FALSE
    /\ LET r == updateVisibleRange(Refs, range, Instance)
       IN  /\ ApplyPass(r)
           /\ log' = r.ev
    /\ UNCHANGED <<phase, range, unityImagesRef, latestByIndex, rafId, scrollFrames,
                   unityCheckInterval, unityCheckAttempts, readyTimeouts,
                   unityInstance, sendThrows, status, error, hasInitialized, attempts, probe, imgComplete, painted, receiver, callbacksGiven, strictMode, cmIntervalMs, isTabVisible, drawn, isBridgeReady, installed, listening, hist,
                   lastDelivered>>
    /\ lastCommand' = Replay(lastCommand, log')

\* One tick of the 500 ms poll: checkUnityAndBridge.
PollTick ==
    /\ unityCheckInterval
    /\ phase = "mounted"
    /\ unityCheckAttempts' = unityCheckAttempts + 1
    /\ IF unityInstance
       THEN /\ unityCheckInterval' = FALSE
            /\ LET r == updateVisibleRange(Refs, range, Instance)
               IN  /\ ApplyPass(r)
                   /\ log' = r.ev
       ELSE /\ unityCheckInterval' = (unityCheckAttempts + 1 < MaxAttempts)
            /\ log' = <<>>
            /\ UNCHANGED <<previousVisiblePanelIds, visiblePanelIds, fired, lastEvent,
                           activeUnityIndexes, unityStopTimers, liveStopTimers,
                           graceTimers, needsRedraw, animationFrameRef, rafTable, stateQueue, owed,
                           cmHasVisible, cmTimer, cmIntervals>>
    /\ UNCHANGED <<phase, range, unityImagesRef, latestByIndex, rafId, scrollFrames,
                   initialCheckTimer, readyTimeouts, unityInstance, sendThrows, status, error, hasInitialized, attempts, probe, imgComplete, painted, receiver, callbacksGiven, strictMode, cmIntervalMs, isTabVisible, drawn,
                   isBridgeReady, installed, listening, hist, lastDelivered>>
    /\ lastCommand' = Replay(lastCommand, log')

\* loadUnity completes elsewhere on the page: window.unityInstance is set.
UnityLoaded ==
    /\ ~unityInstance
    /\ unityInstance' = TRUE
    /\ log' = <<>>
    /\ UNCHANGED <<sendThrows, status, error, hasInitialized, attempts, probe, imgComplete, painted, receiver, callbacksGiven, strictMode, cmIntervalMs, isTabVisible, drawn>>
    /\ UNCHANGED <<phase, range, previousVisiblePanelIds, visiblePanelIds, fired, lastEvent,
                   activeUnityIndexes, unityStopTimers, liveStopTimers,
                   graceTimers, unityImagesRef, latestByIndex, needsRedraw,
                   animationFrameRef, rafTable, stateQueue, owed, rafId, scrollFrames, initialCheckTimer,
                   unityCheckInterval, unityCheckAttempts, readyTimeouts,
                   isBridgeReady, installed, listening, cmHasVisible, cmTimer, cmIntervals,
                   hist, lastDelivered>>
    /\ lastCommand' = Replay(lastCommand, log')

\* window.onBridgeReady, fired once by the renderer, and handleBridgeReady
\* when the component listens: stop the poll, arm the 100 ms timeout.
BridgeReady ==
    /\ ~isBridgeReady
    /\ isBridgeReady' = TRUE
    /\ IF phase = "mounted"
       THEN /\ unityCheckInterval' = FALSE
            /\ readyTimeouts' = readyTimeouts + 1
       ELSE UNCHANGED <<unityCheckInterval, readyTimeouts>>
    /\ log' = <<>>
    /\ UNCHANGED <<phase, range, previousVisiblePanelIds, visiblePanelIds, fired, lastEvent,
                   activeUnityIndexes, unityStopTimers, liveStopTimers,
                   graceTimers, unityImagesRef, latestByIndex, needsRedraw,
                   animationFrameRef, rafTable, stateQueue, owed, rafId, scrollFrames, initialCheckTimer,
                   unityCheckAttempts, unityInstance, sendThrows, status, error, hasInitialized, attempts, probe, imgComplete, painted, receiver, callbacksGiven, strictMode, cmIntervalMs, isTabVisible, drawn, installed, listening,
                   cmHasVisible, cmTimer, cmIntervals, hist, lastDelivered>>
    /\ lastCommand' = Replay(lastCommand, log')

\* The timeout armed by handleBridgeReady: clear the bookkeeping, recompute.
\* The timeout is not cancelled by the effect cleanup; without a container
\* updateVisibleRange returns at once.
ReadyTimeout ==
    /\ readyTimeouts > 0
    /\ readyTimeouts' = readyTimeouts - 1
    /\ IF phase = "mounted"
       THEN LET r == updateVisibleRange([Refs EXCEPT !.active = {}], range, Instance)
            IN  /\ ApplyPass(r)
                /\ log' = <<ResetMark>> \o r.ev
       ELSE /\ activeUnityIndexes' = {}
            /\ log' = <<ResetMark>>
            /\ UNCHANGED <<previousVisiblePanelIds, visiblePanelIds, fired, lastEvent,
                           unityStopTimers, liveStopTimers, graceTimers,
                           needsRedraw, animationFrameRef, rafTable, stateQueue, owed, cmHasVisible, cmTimer, cmIntervals>>
    /\ UNCHANGED <<phase, range, unityImagesRef, latestByIndex, rafId, scrollFrames,
                   initialCheckTimer, unityCheckInterval, unityCheckAttempts,
                   unityInstance, sendThrows, status, error, hasInitialized, attempts, probe, imgComplete, painted, receiver, callbacksGiven, strictMode, cmIntervalMs, isTabVisible, drawn, isBridgeReady, installed, listening, hist,
                   lastDelivered>>
    /\ lastCommand' = Replay(lastCommand, log')

\* Variant of the stop timer callback that forgets to send StopCapture.
StopTimerFire_Silent(index, timer) ==
    /\ <<index, timer>> \in liveStopTimers
    /\ index \notin activeUnityIndexes => Len(graceTimers[index]) < MaxGrace
    /\ liveStopTimers' = liveStopTimers \ {<<index, timer>>}
    /\ unityStopTimers' = [unityStopTimers EXCEPT ![index] = 0]
    /\ graceTimers' = IF index \notin activeUnityIndexes
                      THEN [graceTimers EXCEPT
                              ![index] = Append(@, [reactivated |-> FALSE])]
                      ELSE graceTimers
    /\ log' = <<Note("stillActive", index)>>
    /\ UNCHANGED <<phase, range, previousVisiblePanelIds, visiblePanelIds, fired, lastEvent,
                   activeUnityIndexes, unityImagesRef, latestByIndex,
                   needsRedraw, animationFrameRef, rafTable, stateQueue, owed, rafId, scrollFrames, initialCheckTimer,
                   unityCheckInterval, unityCheckAttempts, readyTimeouts,
                   unityInstance, sendThrows, status, error, hasInitialized, attempts, probe, imgComplete, painted, receiver, callbacksGiven, strictMode, cmIntervalMs, isTabVisible, drawn, isBridgeReady, installed, listening,
                   cmHasVisible, cmTimer, cmIntervals, hist, lastDelivered>>
    /\ lastCommand' = Replay(lastCommand, log')

\* A 500 ms stop timer fires: re-check, StopCapture, arm the 5 s grace timer,
\* delete the map entry.  A throw out of stopUnityCapture ends the callback.
StopTimerFire(index, timer) ==
    /\ <<index, timer>> \in liveStopTimers
    /\ index \notin activeUnityIndexes => Len(graceTimers[index]) < MaxGrace
    /\ liveStopTimers' = liveStopTimers \ {<<index, timer>>}
    /\ LET stop == stopUnityCapture(Instance, index)
       IN  IF index \in activeUnityIndexes
           THEN /\ unityStopTimers' = [unityStopTimers EXCEPT ![index] = 0]
                /\ graceTimers' = graceTimers
                /\ log' = <<Note("stillActive", index)>>
           ELSE IF stop.thrown
           THEN /\ log' = <<stop, Note("uncaught", index)>>
                /\ UNCHANGED <<unityStopTimers, graceTimers>>
           ELSE /\ unityStopTimers' = [unityStopTimers EXCEPT ![index] = 0]
                /\ graceTimers' = [graceTimers EXCEPT
                                     ![index] = Append(@, [reactivated |-> FALSE])]
                /\ log' = <<stop>>
    /\ UNCHANGED <<phase, range, previousVisiblePanelIds, visiblePanelIds, fired, lastEvent,
                   activeUnityIndexes, unityImagesRef, latestByIndex,
                   needsRedraw, animationFrameRef, rafTable, stateQueue, owed, rafId, scrollFrames, initialCheckTimer,
                   unityCheckInterval, unityCheckAttempts, readyTimeouts,
                   unityInstance, sendThrows, status, error, hasInitialized, attempts, probe, imgComplete, painted, receiver, callbacksGiven, strictMode, cmIntervalMs, isTabVisible, drawn, isBridgeReady, installed, listening,
                   cmHasVisible, cmTimer, cmIntervals, hist, lastDelivered>>
    /\ lastCommand' = Replay(lastCommand, log')

\* Variant of the grace callback without the re-check.
GraceFire_NoRecheck(index) ==
    /\ Len(graceTimers[index]) > 0
    /\ graceTimers' = [graceTimers EXCEPT ![index] = Tail(@)]
    /\ unityImagesRef' = [unityImagesRef EXCEPT ![index] = 0]
    /\ log' = <<Note("evict", index)>>
    /\ UNCHANGED <<phase, range, previousVisiblePanelIds, visiblePanelIds, fired, lastEvent,
                   activeUnityIndexes, unityStopTimers, liveStopTimers,
                   latestByIndex, needsRedraw, animationFrameRef, rafTable, stateQueue, owed, rafId, scrollFrames,
                   initialCheckTimer, unityCheckInterval, unityCheckAttempts,
                   readyTimeouts, unityInstance, sendThrows, status, error, hasInitialized, attempts, probe, imgComplete, painted, receiver, callbacksGiven, strictMode, cmIntervalMs, isTabVisible, drawn, isBridgeReady, installed,
                   listening, cmHasVisible, cmTimer, cmIntervals, hist, lastDelivered>>
    /\ lastCommand' = Replay(lastCommand, log')

\* The oldest 5 s grace timer of an index fires: re-check, drop the image.
GraceFire(index) ==
    /\ Len(graceTimers[index]) > 0
    /\ graceTimers' = [graceTimers EXCEPT ![index] = Tail(@)]
    /\ LET evict == index \notin activeUnityIndexes /\ unityImagesRef[index] # 0
       IN  /\ unityImagesRef' = IF evict
                                THEN [unityImagesRef EXCEPT ![index] = 0]
                                ELSE unityImagesRef
           /\ log' = IF ~evict THEN <<Note("keep", index)>>
                     ELSE IF Head(graceTimers[index]).reactivated
                          THEN <<Note("evictReturned", index)>>
                          ELSE <<Note("evict", index)>>
    /\ UNCHANGED <<phase, range, previousVisiblePanelIds, visiblePanelIds, fired, lastEvent,
                   activeUnityIndexes, unityStopTimers, liveStopTimers,
                   latestByIndex, needsRedraw, animationFrameRef, rafTable, stateQueue, owed, rafId, scrollFrames,
                   initialCheckTimer, unityCheckInterval, unityCheckAttempts,
                   readyTimeouts, unityInstance, sendThrows, status, error, hasInitialized, attempts, probe, imgComplete, painted, receiver, callbacksGiven, strictMode, cmIntervalMs, isTabVisible, drawn, isBridgeReady, installed,
                   listening, cmHasVisible, cmTimer, cmIntervals, hist, lastDelivered>>
    /\ lastCommand' = Replay(lastCommand, log')

\* Variant of the listener that requests a redraw for every frame.
ImageReceived_AlwaysRedraw(index, frame) ==
    /\ installed
    /\ latestByIndex' = [latestByIndex EXCEPT ![index] = frame]
    /\ lastDelivered' = [lastDelivered EXCEPT ![index] = frame]
    /\ imgComplete' = IF listening THEN [imgComplete EXCEPT ![index] = FALSE]
                                 ELSE imgComplete
    /\ IF listening
       THEN /\ unityImagesRef' = [unityImagesRef EXCEPT ![index] = frame]
            /\ needsRedraw' = TRUE
            /\ LET e == renderLoopEffect(needsRedraw, TRUE, animationFrameRef,
                                         rafTable)
               IN  animationFrameRef' = e.ref /\ rafTable' = e.table
            /\ owed' = TRUE
            /\ log' = <<Note("create", index), Note("redraw", index)>>
       ELSE /\ log' = <<Note("unheard", index)>>
            /\ UNCHANGED <<unityImagesRef, needsRedraw, animationFrameRef,
                           rafTable, owed>>
    /\ UNCHANGED <<phase, range, previousVisiblePanelIds, visiblePanelIds, fired, lastEvent,
                   activeUnityIndexes, unityStopTimers, liveStopTimers,
                   graceTimers, rafId, scrollFrames, initialCheckTimer, unityCheckInterval,
                   unityCheckAttempts, readyTimeouts, unityInstance, sendThrows, status, error, hasInitialized, attempts, probe, painted, receiver, callbacksGiven, strictMode, cmIntervalMs, isTabVisible, drawn,
                   isBridgeReady, installed, listening, cmHasVisible, cmTimer, cmIntervals,
                   hist, stateQueue>>
    /\ lastCommand' = Replay(lastCommand, log')

\* Variant of the listener that never replaces the src of an existing image.
ImageReceived_FirstWins(index, frame) ==
    /\ installed
    /\ latestByIndex' = [latestByIndex EXCEPT ![index] = frame]
    /\ lastDelivered' = [lastDelivered EXCEPT ![index] = frame]
    /\ imgComplete' = IF listening THEN [imgComplete EXCEPT ![index] = FALSE]
                                 ELSE imgComplete
    /\ IF listening
       THEN LET isIndexVisible == index \in activeUnityIndexes
            IN  /\ unityImagesRef' = IF unityImagesRef[index] = 0
                                     THEN [unityImagesRef EXCEPT ![index] = frame]
                                     ELSE unityImagesRef
                /\ needsRedraw' = (needsRedraw \/ isIndexVisible)
                /\ LET e == IF isIndexVisible /\ ~needsRedraw
                            THEN renderLoopEffect(FALSE, TRUE, animationFrameRef,
                                                  rafTable)
                            ELSE [ref |-> animationFrameRef, table |-> rafTable]
                   IN  animationFrameRef' = e.ref /\ rafTable' = e.table
                /\ owed' = (owed \/ isIndexVisible)
                /\ log' = <<Note(IF unityImagesRef[index] = 0 THEN "create"
                                    ELSE "same", index)>>
                          \o (IF isIndexVisible THEN <<Note("redraw", index)>>
                                                ELSE <<Note("skip", index)>>)
       ELSE /\ log' = <<Note("unheard", index)>>
            /\ UNCHANGED <<unityImagesRef, needsRedraw, animationFrameRef,
                           rafTable, owed>>
    /\ UNCHANGED <<phase, range, previousVisiblePanelIds, visiblePanelIds, fired, lastEvent,
                   activeUnityIndexes, unityStopTimers, liveStopTimers,
                   graceTimers, rafId, scrollFrames, initialCheckTimer, unityCheckInterval,
                   unityCheckAttempts, readyTimeouts, unityInstance, sendThrows, status, error, hasInitialized, attempts, probe, painted, receiver, callbacksGiven, strictMode, cmIntervalMs, isTabVisible, drawn,
                   isBridgeReady, installed, listening, cmHasVisible, cmTimer, cmIntervals,
                   hist, stateQueue>>
    /\ lastCommand' = Replay(lastCommand, log')

\* captureManager.emit and the onImage listener, after the events pre of the
\* caller.
emit(index, frame, pre) ==
    /\ installed
    /\ latestByIndex' = [latestByIndex EXCEPT ![index] = frame]
    /\ lastDelivered' = [lastDelivered EXCEPT ![index] = frame]
    /\ imgComplete' = IF listening THEN [imgComplete EXCEPT ![index] = FALSE]
                                 ELSE imgComplete
    /\ IF listening
       THEN LET isIndexVisible == index \in activeUnityIndexes
            IN  /\ unityImagesRef' = [unityImagesRef EXCEPT ![index] = frame]
                /\ needsRedraw' = (needsRedraw \/ isIndexVisible)
                /\ LET e == IF isIndexVisible /\ ~needsRedraw
                            THEN renderLoopEffect(FALSE, TRUE, animationFrameRef,
                                                  rafTable)
                            ELSE [ref |-> animationFrameRef, table |-> rafTable]
                   IN  animationFrameRef' = e.ref /\ rafTable' = e.table
                /\ owed' = (owed \/ isIndexVisible)
                /\ log' = pre \o <<Note(IF unityImagesRef[index] = 0 THEN "create"
                                    ELSE IF unityImagesRef[index] = frame THEN "same"
                                    ELSE "overwrite", index)>>
                          \o (IF isIndexVisible THEN <<Note("redraw", index)>>
                                                ELSE <<Note("skip", index)>>)
       ELSE /\ log' = pre \o <<Note("unheard", index)>>
            /\ UNCHANGED <<unityImagesRef, needsRedraw, animationFrameRef,
                           rafTable, owed>>
    /\ UNCHANGED <<phase, range, previousVisiblePanelIds, visiblePanelIds, fired, lastEvent,
                   activeUnityIndexes, unityStopTimers, liveStopTimers,
                   graceTimers, rafId, scrollFrames, initialCheckTimer, unityCheckInterval,
                   unityCheckAttempts, readyTimeouts, unityInstance, sendThrows, status, error, hasInitialized, attempts, probe, painted, receiver, callbacksGiven, strictMode, cmIntervalMs, isTabVisible, drawn,
                   isBridgeReady, installed, listening, cmHasVisible, cmTimer, cmIntervals,
                   hist, stateQueue>>
    /\ lastCommand' = Replay(lastCommand, log')

\* window.onUnityImageReceived -> captureManager.emit -> the onImage listener.
ImageReceived(index, frame) == emit(index, frame, <<>>)

\* Everything but the flag, the window property and the log.
ReceiverIdle ==
    UNCHANGED <<phase, range, previousVisiblePanelIds, visiblePanelIds, fired,
                lastEvent, activeUnityIndexes, unityStopTimers, liveStopTimers,
                graceTimers, unityImagesRef, latestByIndex, needsRedraw,
                animationFrameRef, rafTable, stateQueue, rafId, scrollFrames,
                initialCheckTimer, unityCheckInterval, unityCheckAttempts,
                readyTimeouts, unityInstance, sendThrows, isBridgeReady,
                listening, hist, lastDelivered, owed, status, error,
                hasInitialized, attempts, probe, imgComplete, painted, drawn,
                callbacksGiven, strictMode, cmHasVisible, cmTimer, cmIntervals,
                cmIntervalMs, isTabVisible>>

\* A call of installUnityReceiverBridge, in a browser or where no window
\* exists.
InstallCall(hasWindow) ==
    /\ LET b == installUnityReceiverBridge(Bridge, hasWindow)
       IN  installed' = b.installed /\ receiver' = b.receiver
    /\ log' = <<[Note("install", -1) EXCEPT
                    !.payload = IF hasWindow THEN "window" ELSE "no window"]>>
    /\ ReceiverIdle
    /\ lastCommand' = Replay(lastCommand, log')

\* app/debug/unity-minimal assigns its own handler to the window property.
OtherPageAssigns ==
    /\ receiver # "other"
    /\ receiver' = "other"
    /\ log' = <<>>
    /\ UNCHANGED installed
    /\ ReceiverIdle
    /\ lastCommand' = Replay(lastCommand, log')

\* app/debug/unity-minimal deletes the window property when it unmounts.
OtherPageDeletes ==
    /\ receiver = "other"
    /\ receiver' = "none"
    /\ log' = <<>>
    /\ UNCHANGED installed
    /\ ReceiverIdle
    /\ lastCommand' = Replay(lastCommand, log')

\* The renderer calls window.onUnityImageReceived(b64, w, h) or
\* (b64, w, h, index) and the installed handler forwards to emit; args is <<>>
\* when the index is left out.
ReceiverCall(args, frame) ==
    /\ receiver = "bridge"
    /\ LET index == IF args = <<>> THEN 0 ELSE args[1]
       IN  emit(index, frame,
                <<[Note("received", index) EXCEPT
                      !.payload = IF args = <<>> THEN "default" ELSE "given"]>>)

\* drawScene / drawPanel for the live panels: the image of a stream is drawn
\* when the map has one and it is complete; the canvas was cleared before.
drawScene(images, complete) ==
    [i \in Indexes |-> IF images[i] # 0 /\ complete[i] THEN images[i] ELSE 0]

\* The browser finishes decoding the data URL of the stored image of a
\* stream.  The listener of lines 479-533 sets no onload handler.
ImageLoaded(index) ==
    /\ unityImagesRef[index] \in Frames
    /\ ~imgComplete[index]
    /\ imgComplete' = [imgComplete EXCEPT ![index] = TRUE]
    /\ log' = <<>>
    /\ UNCHANGED <<phase, range, previousVisiblePanelIds, visiblePanelIds, fired, lastEvent,
                   activeUnityIndexes, unityStopTimers, liveStopTimers,
                   graceTimers, unityImagesRef, latestByIndex, needsRedraw,
                   animationFrameRef, rafTable, stateQueue, rafId,
                   scrollFrames, initialCheckTimer, unityCheckInterval,
                   unityCheckAttempts, readyTimeouts, unityInstance,
                   sendThrows, isBridgeReady, installed, listening,
                   cmHasVisible, cmTimer, cmIntervals, hist, lastDelivered, owed, status,
                   error, hasInitialized, attempts, probe, painted, receiver, callbacksGiven, strictMode, cmIntervalMs, isTabVisible, drawn>>
    /\ lastCommand' = Replay(lastCommand, log')

\* The render callback of the render-loop effect: drawCanvas, clear the flag.
RenderFrame ==
    /\ animationFrameRef
    /\ rafTable > 0
    /\ needsRedraw' = FALSE
    /\ animationFrameRef' = FALSE
    /\ rafTable' = rafTable - 1
    /\ owed' = FALSE
    /\ painted' = drawScene(unityImagesRef, imgComplete)
    /\ log' = <<>>
    /\ UNCHANGED <<phase, range, previousVisiblePanelIds, visiblePanelIds, fired, lastEvent,
                   activeUnityIndexes, unityStopTimers, liveStopTimers,
                   graceTimers, unityImagesRef, latestByIndex, rafId, scrollFrames,
                   initialCheckTimer, unityCheckInterval, unityCheckAttempts,
                   readyTimeouts, unityInstance, sendThrows, status, error, hasInitialized, attempts, probe, imgComplete, receiver, callbacksGiven, strictMode, cmIntervalMs, isTabVisible, drawn, isBridgeReady, installed,
                   listening, cmHasVisible, cmTimer, cmIntervals, hist, lastDelivered,
                   stateQueue>>
    /\ lastCommand' = Replay(lastCommand, log')

\* Variant of the cleanups that leaves the stop timers armed.
Unmount_KeepsTimers ==
    /\ phase = "mounted"
    /\ phase' = "unmounted"
    /\ listening' = FALSE
    /\ initialCheckTimer' = FALSE
    /\ unityCheckInterval' = FALSE
    /\ rafId' = FALSE
    /\ scrollFrames' = 0
    /\ animationFrameRef' = FALSE
    /\ rafTable' = IF animationFrameRef THEN rafTable - 1 ELSE rafTable
    /\ stateQueue' = <<>>
    /\ log' = <<>>
    /\ UNCHANGED <<range, previousVisiblePanelIds, visiblePanelIds, fired, lastEvent,
                   activeUnityIndexes, graceTimers, unityStopTimers, liveStopTimers, unityImagesRef,
                   latestByIndex, needsRedraw, unityCheckAttempts,
                   readyTimeouts, unityInstance, sendThrows, status, error, hasInitialized, attempts, probe, imgComplete, painted, receiver, callbacksGiven, strictMode, cmIntervalMs, isTabVisible, drawn, isBridgeReady, installed,
                   cmHasVisible, cmTimer, cmIntervals, hist, lastDelivered, owed>>
    /\ lastCommand' = Replay(lastCommand, log')

\* Effect cleanups at unmount: unsubscribe, clear the stop timers, remove the
\* listeners, clear the initial timer and the poll, cancel pending frames.
Unmount ==
    /\ phase = "mounted"
    /\ phase' = "unmounted"
    /\ listening' = FALSE
    /\ liveStopTimers' = liveStopTimers \
           {<<i, unityStopTimers[i]>> : i \in {j \in Indexes : unityStopTimers[j] # 0}}
    /\ unityStopTimers' = NoHandles
    /\ initialCheckTimer' = FALSE
    /\ unityCheckInterval' = FALSE
    /\ rafId' = FALSE
    /\ scrollFrames' = 0
    /\ animationFrameRef' = FALSE
    /\ rafTable' = IF animationFrameRef THEN rafTable - 1 ELSE rafTable
    /\ stateQueue' = <<>>
    /\ log' = <<>>
    /\ UNCHANGED <<range, previousVisiblePanelIds, visiblePanelIds, fired, lastEvent,
                   activeUnityIndexes, graceTimers, unityImagesRef,
                   latestByIndex, needsRedraw, unityCheckAttempts,
                   readyTimeouts, unityInstance, sendThrows, status, error, hasInitialized, attempts, probe, imgComplete, painted, receiver, callbacksGiven, strictMode, cmIntervalMs, isTabVisible, drawn, isBridgeReady, installed,
                   cmHasVisible, cmTimer, cmIntervals, hist, lastDelivered, owed>>
    /\ lastCommand' = Replay(lastCommand, log')

----------------------------------------------------------------------------
(* The same callbacks with React's commit as a step of its own: a state
   setter called outside a React event handler only queues the update. *)

\* setNeedsRedraw(v): queue the update; with nothing queued, a value equal to
\* the committed state is dropped at once.
setNeedsRedraw(queue, committed, v) ==
    IF queue = <<>> /\ v = committed
    THEN queue
    ELSE Append(queue, [kind |-> "needs", v |-> v])

\* The onImage listener, its setNeedsRedraw(true) left in the queue.
ImageQueued(index, frame) ==
    /\ phase = "mounted"
    /\ installed
    /\ listening
    /\ Len(stateQueue) < MaxQueue
    /\ latestByIndex' = [latestByIndex EXCEPT ![index] = frame]
    /\ lastDelivered' = [lastDelivered EXCEPT ![index] = frame]
    /\ unityImagesRef' = [unityImagesRef EXCEPT ![index] = frame]
    /\ imgComplete' = [imgComplete EXCEPT ![index] = FALSE]
    /\ LET isIndexVisible == index \in activeUnityIndexes
       IN  /\ stateQueue' = IF isIndexVisible
                            THEN setNeedsRedraw(stateQueue, needsRedraw, TRUE)
                            ELSE stateQueue
           /\ owed' = (owed \/ isIndexVisible)
           /\ log' = <<Note(IF unityImagesRef[index] = 0 THEN "create"
                               ELSE IF unityImagesRef[index] = frame THEN "same"
                               ELSE "overwrite", index)>>
                     \o (IF isIndexVisible THEN <<Note("redraw", index)>>
                                           ELSE <<Note("skip", index)>>)
    /\ UNCHANGED <<phase, range, previousVisiblePanelIds, visiblePanelIds, fired, lastEvent,
                   activeUnityIndexes, unityStopTimers, liveStopTimers,
                   graceTimers, needsRedraw, animationFrameRef, rafTable,
                   rafId, scrollFrames, initialCheckTimer, unityCheckInterval,
                   unityCheckAttempts, readyTimeouts, unityInstance, sendThrows, status, error, hasInitialized, attempts, probe, painted, receiver, callbacksGiven, strictMode, cmIntervalMs, isTabVisible, drawn,
                   isBridgeReady, installed, listening, cmHasVisible, cmTimer, cmIntervals,
                   hist>>
    /\ lastCommand' = Replay(lastCommand, log')

\* The render callback at a display tick: drawCanvas, setNeedsRedraw(false)
\* queued, the ref cleared.
render ==
    /\ animationFrameRef
    /\ rafTable > 0
    /\ Len(stateQueue) < MaxQueue
    /\ stateQueue' = setNeedsRedraw(stateQueue, needsRedraw, FALSE)
    /\ animationFrameRef' = FALSE
    /\ rafTable' = rafTable - 1
    /\ owed' = FALSE
    /\ painted' = drawScene(unityImagesRef, imgComplete)
    /\ log' = <<Note("paint", -1)>>
    /\ UNCHANGED <<phase, range, previousVisiblePanelIds, visiblePanelIds, fired, lastEvent,
                   activeUnityIndexes, unityStopTimers, liveStopTimers,
                   graceTimers, unityImagesRef, latestByIndex, needsRedraw,
                   rafId, scrollFrames, initialCheckTimer, unityCheckInterval,
                   unityCheckAttempts, readyTimeouts, unityInstance, sendThrows, status, error, hasInitialized, attempts, probe, imgComplete, receiver, callbacksGiven, strictMode, cmIntervalMs, isTabVisible, drawn,
                   isBridgeReady, installed, listening, cmHasVisible, cmTimer, cmIntervals,
                   hist, lastDelivered>>
    /\ lastCommand' = Replay(lastCommand, log')

\* The debug or showMask prop changes: the next commit has a new drawCanvas.
ToggleOption ==
    /\ phase = "mounted"
    /\ Len(stateQueue) < MaxQueue
    /\ stateQueue' = Append(stateQueue, [kind |-> "deps", v |-> TRUE])
    /\ log' = <<>>
    /\ UNCHANGED <<phase, range, previousVisiblePanelIds, visiblePanelIds, fired, lastEvent,
                   activeUnityIndexes, unityStopTimers, liveStopTimers,
                   graceTimers, unityImagesRef, latestByIndex, needsRedraw,
                   animationFrameRef, rafTable, rafId, scrollFrames, initialCheckTimer,
                   unityCheckInterval, unityCheckAttempts, readyTimeouts,
                   unityInstance, sendThrows, status, error, hasInitialized, attempts, probe, imgComplete, painted, receiver, callbacksGiven, strictMode, cmIntervalMs, isTabVisible, drawn, isBridgeReady, installed, listening,
                   cmHasVisible, cmTimer, cmIntervals, hist, lastDelivered, owed>>
    /\ lastCommand' = Replay(lastCommand, log')

\* React commits the queued updates: needsRedraw takes the last queued value;
\* the render-loop effect runs only if needsRedraw or drawCanvas changed, and
\* after an option change the toggle effect calls setNeedsRedraw(true).
Commit ==
    /\ phase = "mounted"
    /\ stateQueue # <<>>
    /\ LET set == {n \in 1 .. Len(stateQueue) : stateQueue[n].kind = "needs"}
           needs == IF set = {} THEN needsRedraw
                    ELSE stateQueue[CHOOSE n \in set : \A m \in set : m <= n].v
           deps == \E n \in 1 .. Len(stateQueue) : stateQueue[n].kind = "deps"
           e == IF needs # needsRedraw \/ deps
                THEN renderLoopEffect(needsRedraw, needs, animationFrameRef,
                                      rafTable)
                ELSE [ref |-> animationFrameRef, table |-> rafTable]
       IN  /\ needsRedraw' = needs
           /\ animationFrameRef' = e.ref
           /\ rafTable' = e.table
           /\ stateQueue' = IF deps THEN setNeedsRedraw(<<>>, needs, TRUE)
                                    ELSE <<>>
           /\ owed' = (owed \/ deps)
    /\ log' = <<>>
    /\ UNCHANGED <<phase, range, previousVisiblePanelIds, visiblePanelIds, fired, lastEvent,
                   activeUnityIndexes, unityStopTimers, liveStopTimers,
                   graceTimers, unityImagesRef, latestByIndex, rafId, scrollFrames,
                   initialCheckTimer, unityCheckInterval, unityCheckAttempts,
                   readyTimeouts, unityInstance, sendThrows, status, error, hasInitialized, attempts, probe, imgComplete, painted, receiver, callbacksGiven, strictMode, cmIntervalMs, isTabVisible, drawn, isBridgeReady, installed,
                   listening, cmHasVisible, cmTimer, cmIntervals, hist, lastDelivered>>
    /\ lastCommand' = Replay(lastCommand, log')

----------------------------------------------------------------------------
(* lib/capture/capture-manager.ts: the capture loop *)

\* The visibilitychange listener installed by the constructor.
handleVisibilityChange(cm, hidden, inst) ==
    LET c == [cm EXCEPT !.tab = ~hidden]
    IN  IF hidden THEN CaptureManager_stop(c)
        ELSE IF c.hasVisible THEN CaptureManager_start(c, inst)
        ELSE c

\* CaptureManager.setInterval: stop, store the interval, restart if it ran.
setInterval(cm, ms, inst) ==
    LET wasRunning == cm.timer
        c == [CaptureManager_stop(cm) EXCEPT !.ms = ms]
    IN  IF wasRunning /\ c.hasVisible /\ c.tab
        THEN CaptureManager_start(c, inst)
        ELSE c

\* The fields of the singleton after a method returned c.
ApplyCM(c) ==
    /\ cmHasVisible' = c.hasVisible
    /\ cmTimer' = c.timer
    /\ cmIntervals' = c.live
    /\ cmIntervalMs' = c.ms
    /\ isTabVisible' = c.tab

CaptureIdle ==
    UNCHANGED <<phase, range, previousVisiblePanelIds, visiblePanelIds, fired, lastEvent,
                activeUnityIndexes, unityStopTimers, liveStopTimers,
                graceTimers, unityImagesRef, latestByIndex, needsRedraw,
                animationFrameRef, rafTable, stateQueue, rafId, scrollFrames,
                initialCheckTimer, unityCheckInterval, unityCheckAttempts,
                readyTimeouts, unityInstance, sendThrows, isBridgeReady,
                installed, listening, hist, lastDelivered, owed, status,
                error, hasInitialized, attempts, probe, imgComplete, painted, receiver, callbacksGiven, strictMode,
                drawn>>

\* A caller of captureManager.setVisibleState.
SetVisibleState(hasVisible) ==
    /\ ApplyCM(setVisibleState(CM, hasVisible, Instance))
    /\ log' = <<Note(IF hasVisible THEN "visible" ELSE "invisible", -1)>>
    /\ CaptureIdle
    /\ lastCommand' = Replay(lastCommand, log')

\* The tab is hidden or shown again: document.hidden changed.
VisibilityChange(hidden) ==
    /\ hidden = isTabVisible
    /\ ApplyCM(handleVisibilityChange(CM, hidden, Instance))
    /\ log' = <<Note(IF hidden THEN "hidden" ELSE "shown", -1)>>
    /\ CaptureIdle
    /\ lastCommand' = Replay(lastCommand, log')

\* A caller of captureManager.setInterval.
SetInterval(ms) ==
    /\ ApplyCM(setInterval(CM, ms, Instance))
    /\ log' = <<[Note("interval", -1) EXCEPT !.ms = ms]>>
    /\ CaptureIdle
    /\ lastCommand' = Replay(lastCommand, log')

\* One tick of an interval timer that start() armed: CaptureAndSend goes to
\* the renderer; a throw is caught and logged.
CaptureTick ==
    /\ cmIntervals > 0
    /\ LET sent == sendMessageToUnity(Instance, "Bridge", "CaptureAndSend", "",
                                      -1, cmIntervalMs)
       IN  log' = IF sent.thrown THEN <<sent, Note("caught", -1)>> ELSE <<sent>>
    /\ UNCHANGED <<cmHasVisible, cmTimer, cmIntervals, cmIntervalMs, isTabVisible>>
    /\ CaptureIdle
    /\ lastCommand' = Replay(lastCommand, log')

----------------------------------------------------------------------------
(* How the page uses PanelCanvas *)

\* The page passes onPanelEnter and onPanelLeave to PanelCanvas, in a
\* production build or in a development build with reactStrictMode.
Configure(strict) ==
    /\ phase = "constructed"
    /\ ~callbacksGiven
    /\ callbacksGiven' = TRUE
    /\ strictMode' = strict
    /\ log' = <<>>
    /\ UNCHANGED <<cmHasVisible, cmTimer, cmIntervals, cmIntervalMs, isTabVisible,
                   previousVisiblePanelIds, visiblePanelIds, fired, lastEvent,
                   activeUnityIndexes, unityStopTimers, liveStopTimers,
                   graceTimers, unityImagesRef, latestByIndex, needsRedraw,
                   animationFrameRef, rafTable, stateQueue, rafId, scrollFrames,
                   initialCheckTimer, unityCheckInterval, unityCheckAttempts,
                   readyTimeouts, unityInstance, sendThrows, isBridgeReady,
                   installed, listening, hist, lastDelivered, owed, status,
                   error, hasInitialized, attempts, probe, imgComplete, painted, receiver,
                   drawn, phase, range>>
    /\ lastCommand' = Replay(lastCommand, log')

----------------------------------------------------------------------------
(* Failures inside handlers *)

\* The renderer stops taking messages: from now on SendMessage throws.
UnityBreaks ==
    /\ phase = "mounted"
    /\ unityInstance
    /\ ~sendThrows
    /\ sendThrows' = TRUE
    /\ log' = <<>>
    /\ UNCHANGED <<phase, range, previousVisiblePanelIds, visiblePanelIds, fired, lastEvent,
                   activeUnityIndexes, unityStopTimers, liveStopTimers,
                   graceTimers, unityImagesRef, latestByIndex, needsRedraw,
                   animationFrameRef, rafTable, stateQueue, rafId,
                   scrollFrames, initialCheckTimer, unityCheckInterval,
                   unityCheckAttempts, readyTimeouts, unityInstance,
                   isBridgeReady, installed, listening, cmHasVisible, cmTimer, cmIntervals,
                   hist, lastDelivered, owed,
                   status, error, hasInitialized, attempts, probe, imgComplete, painted, receiver, callbacksGiven, strictMode, cmIntervalMs, isTabVisible, drawn>>
    /\ lastCommand' = Replay(lastCommand, log')

\* CaptureManager.emit with a listener that throws as soon as it is called:
\* the frame is stored, the error is caught and logged.
ListenerThrows(index, frame) ==
    /\ installed
    /\ listening
    /\ latestByIndex' = [latestByIndex EXCEPT ![index] = frame]
    /\ lastDelivered' = [lastDelivered EXCEPT ![index] = frame]
    /\ log' = <<Note("caught", index)>>
    /\ UNCHANGED <<phase, range, previousVisiblePanelIds, visiblePanelIds, fired, lastEvent,
                   activeUnityIndexes, unityStopTimers, liveStopTimers,
                   graceTimers, unityImagesRef, needsRedraw,
                   animationFrameRef, rafTable, stateQueue, rafId,
                   scrollFrames, initialCheckTimer, unityCheckInterval,
                   unityCheckAttempts, readyTimeouts, unityInstance,
                   sendThrows, status, error, hasInitialized, attempts, probe, imgComplete, painted, receiver, callbacksGiven, strictMode, cmIntervalMs, isTabVisible, drawn, isBridgeReady, installed, listening,
                   cmHasVisible, cmTimer, cmIntervals, hist, owed>>
    /\ lastCommand' = Replay(lastCommand, log')

----------------------------------------------------------------------------
(* Direct calls of the adapter, as the debug page makes them *)

AdapterCall(entry) ==
    /\ log' = <<entry>>
    /\ UNCHANGED <<phase, range, previousVisiblePanelIds, visiblePanelIds, fired, lastEvent,
                   activeUnityIndexes, unityStopTimers, liveStopTimers,
                   graceTimers, unityImagesRef, latestByIndex, needsRedraw,
                   animationFrameRef, rafTable, stateQueue, rafId, scrollFrames,
                   initialCheckTimer, unityCheckInterval, unityCheckAttempts,
                   readyTimeouts, unityInstance, sendThrows, status, error, hasInitialized, attempts, probe, imgComplete, painted, receiver, callbacksGiven, strictMode, cmIntervalMs, isTabVisible, drawn, isBridgeReady, installed,
                   listening, cmHasVisible, cmTimer, cmIntervals, hist, lastDelivered, owed>>
    /\ lastCommand' = Replay(lastCommand, log')

CallStartCapture(index, args) ==
    AdapterCall(startUnityCapture(Instance, index, args))

CallStopCapture(index) == AdapterCall(stopUnityCapture(Instance, index))

CallSetInterval(index, intervalMs) ==
    AdapterCall(setUnityCaptureInterval(Instance, index, intervalMs))

----------------------------------------------------------------------------
(* Observation of one panel over successive recomputations *)

PanelById(id) == CHOOSE p \in SeqRange(scene.panels) : p.id = id

\* Rows and columns of a panel that lie inside the visible window.
RowsIn(p, rng) ==
    Cardinality({y \in p.y .. (p.y + p.height - 1) : rng[1] <= y /\ y < rng[2]})

ColsIn(p) ==
    Cardinality({x \in p.x .. (p.x + p.width - 1) : 0 <= x /\ x < scene.viewportWidth})

\* Visible fraction of a panel in thousandths, by counting its unit cells.
Permille(p, rng) == (RowsIn(p, rng) * ColsIn(p) * 1000) \div (p.width * p.height)

\* Sliding window over the last MaxHist recomputations: the ratio of
\* WatchedPanel, its new flag, and the flag it had before the window.
HistPush(h, wasVisible, entry) ==
    IF Len(h.trace) = 0 THEN [start |-> wasVisible, trace |-> <<entry>>]
    ELSE IF Len(h.trace) < MaxHist THEN [h EXCEPT !.trace = Append(@, entry)]
    ELSE [start |-> h.trace[1].visible, trace |-> Append(Tail(h.trace), entry)]

\* A resize-driven recomputation, observed.
HResize(rng) ==
    /\ ResizeCore(rng)
    /\ hist' = HistPush(hist, WatchedPanel \in previousVisiblePanelIds,
                        [ratio |-> Permille(PanelById(WatchedPanel), rng),
                         visible |-> WatchedPanel \in previousVisiblePanelIds'])

----------------------------------------------------------------------------
(* HiddenUnityHost.tsx: the loader *)

\* One closure of the init effect: its `mounted` flag, the loadUnity promise,
\* the 90 s timer and the Promise.race of the two.
NewAttempt(loading) ==
    [mounted |-> TRUE,
     load    |-> IF loading THEN "pending" ELSE "none",
     timeout |-> IF loading THEN "pending" ELSE "none",
     race    |-> IF loading THEN "pending" ELSE "none"]

\* What initUnity does once its race is settled: the lines after the await
\* (outcome "fulfilled") or the outer catch (outcome "rejected").
settled(a, outcome, message) ==
    IF ~a.mounted
    THEN [status |-> status, error |-> error, hasInitialized |-> hasInitialized]
    ELSE IF outcome = "fulfilled"
    THEN [status |-> "ready", error |-> error, hasInitialized |-> TRUE]
    ELSE [status |-> "error", error |-> message, hasInitialized |-> TRUE]

HostIdle ==
    UNCHANGED <<phase, range, previousVisiblePanelIds, visiblePanelIds, fired, lastEvent,
                activeUnityIndexes, unityStopTimers, liveStopTimers,
                graceTimers, unityImagesRef, latestByIndex, needsRedraw,
                animationFrameRef, rafTable, stateQueue, rafId, scrollFrames,
                initialCheckTimer, unityCheckInterval, unityCheckAttempts,
                readyTimeouts, sendThrows, isBridgeReady, installed,
                listening, cmHasVisible, cmTimer, cmIntervals, hist, lastDelivered, owed,
                probe, imgComplete, painted, receiver, callbacksGiven, strictMode, cmIntervalMs, isTabVisible, drawn>>

\* The init effect runs (mount, or StrictMode's second run after the cleanup):
\* the synchronous part of initUnity up to the await.
HostEffect ==
    /\ Len(attempts) < MaxEffects
    /\ \A n \in 1 .. Len(attempts) : ~attempts[n].mounted
    /\ IF hasInitialized
       THEN UNCHANGED <<status, attempts>>
       ELSE /\ status' = IF unityInstance THEN "ready" ELSE "loading"
            /\ attempts' = Append(attempts, NewAttempt(~unityInstance))
    /\ log' = <<>>
    /\ UNCHANGED <<error, hasInitialized, unityInstance>>
    /\ HostIdle
    /\ lastCommand' = Replay(lastCommand, log')

\* The effect's cleanup.
HostCleanup ==
    /\ \E n \in 1 .. Len(attempts) :
          /\ attempts[n].mounted
          /\ attempts' = [attempts EXCEPT ![n].mounted = FALSE]
    /\ log' = <<>>
    /\ UNCHANGED <<status, error, hasInitialized, unityInstance>>
    /\ HostIdle
    /\ lastCommand' = Replay(lastCommand, log')

\* The race settles for attempt n, if it has not yet, and initUnity resumes.
Settle(n, outcome, message, after) ==
    IF attempts[n].race = "pending"
    THEN LET s == settled(attempts[n], outcome, message) IN
         /\ attempts' = [after EXCEPT ![n].race = outcome]
         /\ status' = s.status
         /\ error' = s.error
         /\ hasInitialized' = s.hasInitialized
    ELSE /\ attempts' = after
         /\ UNCHANGED <<status, error, hasInitialized>>

LoadResolves_Adopts(n) ==
    /\ n \in 1 .. Len(attempts)
    /\ attempts[n].load = "pending"
    /\ unityInstance' = TRUE
    /\ attempts' = [attempts EXCEPT ![n].load = "resolved",
                                    ![n].race = IF @ = "pending"
                                                THEN "fulfilled" ELSE @]
    /\ status' = IF attempts[n].mounted THEN "ready" ELSE status
    /\ hasInitialized' = (hasInitialized \/ attempts[n].mounted)
    /\ log' = <<>>
    /\ UNCHANGED error
    /\ HostIdle
    /\ lastCommand' = Replay(lastCommand, log')

\* loadUnity of attempt n completes: the instance is stored on window.
LoadResolves(n) ==
    /\ n \in 1 .. Len(attempts)
    /\ attempts[n].load = "pending"
    /\ unityInstance' = TRUE
    /\ Settle(n, "fulfilled", NoError,
              [attempts EXCEPT ![n].load = "resolved"])
    /\ log' = <<>>
    /\ HostIdle
    /\ lastCommand' = Replay(lastCommand, log')

\* loadUnity of attempt n throws.
LoadRejects(n) ==
    /\ n \in 1 .. Len(attempts)
    /\ attempts[n].load = "pending"
    /\ Settle(n, "rejected", LoadFailed,
              [attempts EXCEPT ![n].load = "rejected"])
    /\ log' = <<>>
    /\ UNCHANGED unityInstance
    /\ HostIdle
    /\ lastCommand' = Replay(lastCommand, log')

TimeoutFires_Unreported(n) ==
    /\ n \in 1 .. Len(attempts)
    /\ attempts[n].timeout = "pending"
    /\ attempts' = [attempts EXCEPT ![n].timeout = "fired",
                                    ![n].race = IF @ = "pending"
                                                THEN "rejected" ELSE @]
    /\ log' = <<>>
    /\ UNCHANGED <<status, error, hasInitialized, unityInstance>>
    /\ HostIdle
    /\ lastCommand' = Replay(lastCommand, log')

\* The 90 s timer of attempt n fires; nothing ever clears it.
TimeoutFires(n) ==
    /\ n \in 1 .. Len(attempts)
    /\ attempts[n].timeout = "pending"
    /\ Settle(n, "rejected", TimedOut,
              [attempts EXCEPT ![n].timeout = "fired"])
    /\ log' = <<>>
    /\ UNCHANGED unityInstance
    /\ HostIdle
    /\ lastCommand' = Replay(lastCommand, log')

----------------------------------------------------------------------------
(* The ratio function, called on its own *)

\* One panel of the debug read-out and of the hysteresis loop of
\* updateVisibleRange: the ratio, and getVisiblePanels at both thresholds.
RatioCall(panel, rng, viewportWidth) ==
    /\ probe' = [called |-> TRUE, panel |-> panel, range |-> rng,
                 viewportWidth |-> viewportWidth,
                 ratio |-> calculateVisibilityRatio(panel, rng, viewportWidth),
                 kept |-> Len(getVisiblePanels(<<panel>>, rng, viewportWidth,
                                               LowThreshold)) > 0,
                 entered |-> Len(getVisiblePanels(<<panel>>, rng, viewportWidth,
                                                  HighThreshold)) > 0]
    /\ log' = <<>>
    /\ UNCHANGED <<phase, range, previousVisiblePanelIds, visiblePanelIds, fired, lastEvent,
                   activeUnityIndexes, unityStopTimers, liveStopTimers,
                   graceTimers, unityImagesRef, latestByIndex, needsRedraw,
                   animationFrameRef, rafTable, stateQueue, rafId,
                   scrollFrames, initialCheckTimer, unityCheckInterval,
                   unityCheckAttempts, readyTimeouts, unityInstance,
                   sendThrows, isBridgeReady, installed, listening,
                   cmHasVisible, cmTimer, cmIntervals, hist, lastDelivered, owed, status,
                   error, hasInitialized, attempts, imgComplete, painted, receiver, callbacksGiven, strictMode, cmIntervalMs, isTabVisible, drawn>>
    /\ lastCommand' = Replay(lastCommand, log')

----------------------------------------------------------------------------
(* drawScene: the draw order *)

\* The comparator of drawScene: (a.zIndex ?? 0) - (b.zIndex ?? 0), then y.
comparePanels_ByY(a, b) == a.y - b.y

comparePanels(a, b) ==
    LET za == IF a.zIndex = <<>> THEN 0 ELSE a.zIndex[1]
        zb == IF b.zIndex = <<>> THEN 0 ELSE b.zIndex[1]
        zDiff == za - zb
    IN  IF zDiff # 0 THEN zDiff ELSE a.y - b.y

\* Array.prototype.sort is stable: x goes behind everything not greater.
InsertPanel(s, x) ==
    LET k == Cardinality({n \in 1 .. Len(s) : comparePanels(s[n], x) <= 0})
    IN  SubSeq(s, 1, k) \o <<x>> \o SubSeq(s, k + 1, Len(s))

RECURSIVE SortPanels(_, _, _)
SortPanels(panels, k, acc) ==
    IF k > Len(panels) THEN acc
    ELSE SortPanels(panels, k + 1, InsertPanel(acc, panels[k]))

\* const sortedPanels = [...scene.panels].sort(...)
sortedPanels(panels) == SortPanels(panels, 1, <<>>)

\* One drawScene call on a scene with the given panel list: the copy is
\* sorted, drawPanel runs for each element in turn, the list stays as it was.
DrawCall(panels) ==
    /\ drawn' = [called |-> TRUE, before |-> panels, after |-> panels,
                 order |-> sortedPanels(panels)]
    /\ log' = <<>>
    /\ UNCHANGED <<phase, range, previousVisiblePanelIds, visiblePanelIds, fired, lastEvent,
                   activeUnityIndexes, unityStopTimers, liveStopTimers,
                   graceTimers, unityImagesRef, latestByIndex, needsRedraw,
                   animationFrameRef, rafTable, stateQueue, rafId,
                   scrollFrames, initialCheckTimer, unityCheckInterval,
                   unityCheckAttempts, readyTimeouts, unityInstance,
                   sendThrows, isBridgeReady, installed, listening,
                   cmHasVisible, cmTimer, cmIntervals, hist, lastDelivered, owed, status,
                   error, hasInitialized, attempts, probe, imgComplete,
                   painted, receiver, callbacksGiven, strictMode, cmIntervalMs, isTabVisible>>
    /\ lastCommand' = Replay(lastCommand, log')

----------------------------------------------------------------------------
(* Specification *)

\* The capture lifecycle: recomputations, the debounced stop and the grace
\* timer.  Every recomputation is the same updateVisibleRange call, so the
\* resize handler stands for all of its callers here; the other callers and
\* the renderer-ready path are the subject of SpecReady, frame deliveries
\* and the render loop of SpecFrames.
Next ==
    \/ Mount
    \/ \E r \in VisibleRanges : Resize(r)
    \/ UnityLoaded
    \/ \E i \in Indexes, t \in Tokens : StopTimerFire(i, t)
    \/ \E i \in Indexes : GraceFire(i)
    \/ Unmount

Spec == Init /\ [][Next]_vars

\* Readiness: scroll-driven recomputations, the initial check, the poll for
\* the instance and the renderer-ready reset, racing each other.
NextReady ==
    \/ Mount
    \/ \E r \in FarRanges : Scroll(r)
    \/ ScrollFrame
    \/ InitialCheck
    \/ PollTick
    \/ UnityLoaded
    \/ BridgeReady
    \/ ReadyTimeout
    \/ \E i \in Indexes, t \in Tokens : StopTimerFire(i, t)
    \/ \E i \in Indexes : GraceFire(i)
    \/ Unmount

SpecReady == Init /\ [][NextReady]_vars

\* Frames: deliveries of distinguishable frames, eviction and the render loop.
NextFrames ==
    \/ Mount
    \/ \E r \in FarRanges : Resize(r)
    \/ \E i \in Indexes, t \in Tokens : StopTimerFire(i, t)
    \/ \E i \in Indexes : GraceFire(i)
    \/ \E i \in FrameIndexes, f \in Frames : ImageReceived(i, f)
    \/ RenderFrame
    \/ Unmount

SpecFrames == Init /\ [][NextFrames]_vars

\* Hysteresis: recomputations over windows around one panel edge, observed.
NextHyst ==
    \/ Mount
    \/ \E r \in HystRanges : HResize(r)

SpecHyst == Init /\ [][NextHyst]_vars

\* Commands: the coordinator's and direct calls of the adapter functions.
NextWire ==
    \/ Mount
    \/ \E r \in FarRanges : Resize(r)
    \/ UnityLoaded
    \/ \E i \in Indexes, t \in Tokens : StopTimerFire(i, t)
    \/ \E i \in Indexes : GraceFire(i)
    \/ \E i \in Indexes, m \in Intervals : CallStartCapture(i, <<m>>)
    \/ \E i \in Indexes : CallStartCapture(i, <<>>)
    \/ \E i \in Indexes : CallStopCapture(i)
    \/ \E i \in Indexes, m \in Intervals : CallSetInterval(i, m)
    \/ Unmount

SpecWire == Init /\ [][NextWire]_vars

\* Failures: the steady-state handlers with a renderer that may start to throw.
NextThrow ==
    \/ Mount
    \/ UnityLoaded
    \/ UnityBreaks
    \/ \E r \in FarRanges : Scroll(r)
    \/ ScrollFrame
    \/ \E i \in Indexes, t \in Tokens : StopTimerFire(i, t)
    \/ \E i \in Indexes : GraceFire(i)
    \/ \E i \in FrameIndexes, f \in Frames : ListenerThrows(i, f)
    \/ Unmount

SpecThrow == Init /\ [][NextThrow]_vars

\* Inbound data: frames that decode and frames that do not.
NextInbound ==
    \/ Mount
    \/ \E i \in FrameIndexes, f \in Frames \cup {MalformedFrame} : ImageReceived(i, f)
    \/ RenderFrame
    \/ Unmount

SpecInbound == Init /\ [][NextInbound]_vars

\* Painting: frame arrivals, option changes, display ticks and React commits.
NextPaint ==
    \/ Mount
    \/ \E i \in FrameIndexes, f \in Frames : ImageQueued(i, f)
    \/ ToggleOption
    \/ render
    \/ Commit
    \/ Unmount

SpecPaint == Init /\ [][NextPaint]_vars

\* Loading: the init effect, its cleanup, the loader and the 90 s timer.
NextHost ==
    \/ HostEffect
    \/ HostCleanup
    \/ \E n \in 1 .. MaxEffects : LoadResolves(n)
    \/ \E n \in 1 .. MaxEffects : LoadRejects(n)
    \/ \E n \in 1 .. MaxEffects : TimeoutFires(n)

SpecHost == Init /\ [][NextHost]_vars

\* Ratios: the ratio function on panels and windows of any size, and
\* recomputations over windows that may be empty.
NextRatio ==
    \/ Mount
    \/ \E r \in FarRanges \cup ZeroRanges : Resize(r)
    \/ \E p \in ProbePanels, r \in ProbeRanges, w \in ProbeWidths :
          RatioCall(p, r, w)

SpecRatio == Init /\ [][NextRatio]_vars

\* Drawing: frame arrivals, image decoding, display ticks and React commits;
\* the browser runs every pending frame callback, React commits every queued
\* update and every decodable image finishes decoding.
NextDraw ==
    \/ Mount
    \/ \E i \in FrameIndexes, f \in Frames : ImageQueued(i, f)
    \/ \E i \in FrameIndexes : ImageLoaded(i)
    \/ render
    \/ Commit

SpecDraw ==
    /\ Init /\ [][NextDraw]_vars
    /\ WF_vars(render) /\ WF_vars(Commit)
    /\ \A i \in FrameIndexes : WF_vars(ImageLoaded(i))

\* Draw order: drawScene on panel lists of every z-order and position.
NextOrder ==
    \E panels \in DrawLists : DrawCall(panels)

SpecOrder == Init /\ [][NextOrder]_vars

\* Capture loop: recomputations, direct calls of the manager's methods, tab
\* visibility changes and timer ticks, before and after the renderer loads.
NextCapture ==
    \/ Mount
    \/ \E r \in FarRanges \cup ZeroRanges : Resize(r)
    \/ UnityLoaded
    \/ \E h \in BOOLEAN : SetVisibleState(h)
    \/ \E hidden \in BOOLEAN : VisibilityChange(hidden)
    \/ \E ms \in Intervals : SetInterval(ms)
    \/ CaptureTick

SpecCapture == Init /\ [][NextCapture]_vars

\* Panel callbacks: recomputations over every window, with the callbacks
\* passed, with and without StrictMode.
NextEvents ==
    \/ \E strict \in BOOLEAN : Configure(strict)
    \/ Mount
    \/ \E r \in VisibleRanges : Resize(r)
    \/ Unmount

SpecEvents == Init /\ [][NextEvents]_vars

\* Receiver bridge: install calls with and without a window, another page
\* taking and dropping the window property, a mounted listener, deliveries.
NextInstall ==
    \/ \E hasWindow \in BOOLEAN : InstallCall(hasWindow)
    \/ OtherPageAssigns
    \/ OtherPageDeletes
    \/ Mount
    \/ \E i \in FrameIndexes, f \in Frames : ReceiverCall(<<i>>, f)
    \/ \E f \in Frames : ReceiverCall(<<>>, f)
    \/ Unmount

SpecInstall == Init /\ [][NextInstall]_vars

\* Teardown: the component is unmounted while a stop timer, the poll, the
\* renderer-ready timeout and frame deliveries are still outstanding.
NextTeardown ==
    \/ Mount
    \/ \E r \in FarRanges : Scroll(r)
    \/ ScrollFrame
    \/ InitialCheck
    \/ PollTick
    \/ UnityLoaded
    \/ BridgeReady
    \/ ReadyTimeout
    \/ \E i \in Indexes, t \in Tokens : StopTimerFire(i, t)
    \/ \E i \in {0} : ImageReceived(i, 1)
    \/ Unmount

SpecTeardown == Init /\ [][NextTeardown]_vars

----------------------------------------------------------------------------
(* C4 *)

\* The flag a panel gets from its prior flag and its visible fraction.
HysteresisRule(p, prior, rng) ==
    \/ p.id \in prior /\ Permille(p, rng) >= 100
    \/ p.id \notin prior /\ Permille(p, rng) >= 500

HystStep ==
    \A p \in SeqRange(scene.panels) :
        p.id \in previousVisiblePanelIds'
            <=> HysteresisRule(p, previousVisiblePanelIds, range')

ExampleRatios == <<600, 300, 50, 300, 600>>
ExampleFlags == <<TRUE, TRUE, FALSE, FALSE, TRUE>>

\* The window of hist.trace starting at k shows the example ratio sequence,
\* entered with the panel not visible.
ExampleAt(k) ==
    /\ k + Len(ExampleRatios) - 1 <= Len(hist.trace)
    /\ \A n \in 1 .. Len(ExampleRatios) : hist.trace[k + n - 1].ratio = ExampleRatios[n]
    /\ IF k = 1 THEN ~hist.start ELSE ~hist.trace[k - 1].visible

HystExample ==
    \A k \in 1 .. MaxHist :
        ExampleAt(k) =>
            \A n \in 1 .. Len(ExampleFlags) : hist.trace[k + n - 1].visible = ExampleFlags[n]

\* C4: in every recomputation a panel is in the new visible set iff it was
\* in the prior set and its ratio is >= 0.1, or it was not and its ratio is
\* >= 0.5, the new set being the prior set of the next recomputation; the
\* ratios 0.6, 0.3, 0.05, 0.3, 0.6 from "not visible" give the flags visible,
\* visible, not visible, not visible, visible.
C4_Hysteresis == [][HystStep]_vars /\ []HystExample

C4_Witness == \E k \in 1 .. MaxHist : ExampleAt(k)

----------------------------------------------------------------------------
(* Reading the log and the timer table *)

Count(c, i) == Cardinality({n \in 1 .. Len(log') : log'[n].c = c /\ log'[n].i = i})

Logged(c, i) == \E n \in 1 .. Len(log) : log[n].c = c /\ log[n].i = i

Pending(live, i) == {t \in Tokens : <<i, t>> \in live}

\* Stream indexes of the live panels of a set of panel ids.
StreamsOf(ids) ==
    {p.source.index : p \in {q \in SeqRange(scene.panels) :
                                q.source.type = "unity" /\ q.id \in ids}}

Marks(m) == Cardinality({n \in 1 .. Len(log') : log'[n] = m})

\* A step that is exactly one updateVisibleRange call on the recorded set.
SinglePass == Marks(PassMark) = 1 /\ Marks(ResetMark) = 0

\* The recomputation of the renderer-ready timeout, run on the cleared set.
ReadyPass == Marks(PassMark) = 1 /\ Marks(ResetMark) = 1

----------------------------------------------------------------------------
(* C1 *)

\* What one recomputation does for index i, given the recorded set A.
DiffFor(A, i) ==
    LET V == StreamsOf(previousVisiblePanelIds')
        timerless == Pending(liveStopTimers, i) = {}
    IN  /\ Count("StartCapture", i) = IF i \in V \ A /\ timerless THEN 1 ELSE 0
        /\ Count("schedule", i) = IF i \in A \ V THEN 1 ELSE 0
        /\ i \in A \ V => Cardinality(Pending(liveStopTimers', i)) = 1
        /\ i \in A \cap V =>
              /\ \A n \in 1 .. Len(log') : log'[n].i # i
              /\ Pending(liveStopTimers', i) = Pending(liveStopTimers, i)
              /\ unityStopTimers'[i] = unityStopTimers[i]

\* C1: in one recomputation, StartCapture is issued exactly once for each
\* index of V \ A without a pending stop timer, a stop timer is scheduled
\* exactly once for each index of A \ V, and nothing happens for A \cap V.
C1_Diff ==
    [][/\ SinglePass => \A i \in Indexes : DiffFor(activeUnityIndexes, i)
       /\ ReadyPass => \A i \in Indexes : DiffFor({}, i)]_vars

\* A = {0,1}, V = {1,2}: one start (index 2), one scheduled stop (index 0).
C1_Witness ==
    /\ activeUnityIndexes = {1, 2}
    /\ Len(log) = 3
    /\ log[1] = PassMark
    /\ log[2].c = "StartCapture" /\ log[2].i = 2
    /\ log[3] = Note("schedule", 0)

----------------------------------------------------------------------------
(* C2 *)

AnyPass == Marks(PassMark) >= 1

\* A pending stop timer of index i went off in this step.
TimerFired(i) ==
    /\ Pending(liveStopTimers', i) # Pending(liveStopTimers, i)
    /\ ~AnyPass
    /\ phase' = phase

DebounceFor(i) ==
    /\ (AnyPass /\ Pending(liveStopTimers, i) # {}
               /\ i \in StreamsOf(previousVisiblePanelIds'))
         => /\ Pending(liveStopTimers', i) = {}
            /\ unityStopTimers'[i] = 0
            /\ Count("cancel", i) = 1
            /\ Count("StartCapture", i) = 0
            /\ Count("StopCapture", i) = 0
    /\ Count("StopCapture", i) > 0 => TimerFired(i) /\ i \notin activeUnityIndexes

\* C2: an index that re-enters the visible stream set while its stop timer is
\* pending has the timer cancelled and gets no StartCapture; StopCapture is
\* only ever sent by a pending stop timer that fires, so none is sent for it.
C2_Debounce == [][\A i \in Indexes : DebounceFor(i)]_vars

C2_Witness ==
    \E i \in Indexes :
        /\ Logged("cancel", i)
        /\ i \in activeUnityIndexes
        /\ Pending(liveStopTimers, i) = {}

----------------------------------------------------------------------------
(* C3 *)

GraceFired(i) == Len(graceTimers'[i]) < Len(graceTimers[i])

StopThenEvict(i) ==
    /\ TimerFired(i) =>
          /\ Count("StopCapture", i) = 1
          /\ Len(graceTimers'[i]) = Len(graceTimers[i]) + 1
    /\ (GraceFired(i) /\ i \notin activeUnityIndexes) => unityImagesRef'[i] = 0

OneTimerWhileAway ==
    \A i \in Indexes :
        /\ Cardinality(Pending(liveStopTimers, i)) <= 1
        /\ Pending(liveStopTimers, i) # {} => i \notin activeUnityIndexes

\* C3: a stop timer stays pending only while its index is not visible again;
\* when it fires exactly one StopCapture is sent for the index and a grace
\* timer is armed, and when that fires with the index still not visible the
\* cached frame of the index is removed.
C3_StopAndEvict == []OneTimerWhileAway /\ [][\A i \in Indexes : StopThenEvict(i)]_vars

C3_Witness ==
    \E i \in Indexes :
        /\ Logged("evict", i)
        /\ unityImagesRef[i] = 0
        /\ lastDelivered[i] # 0

----------------------------------------------------------------------------
(* C5 *)

\* C5: the recomputation run by the renderer-ready timeout issues StartCapture
\* for every stream index that is visible at that moment.
C5_ReadyReplay ==
    [][ReadyPass =>
          \A i \in StreamsOf(previousVisiblePanelIds') : Count("StartCapture", i) >= 1]_vars

----------------------------------------------------------------------------
(* C6 *)

Dropped(i) ==
    \E n \in 1 .. Len(log) :
        log[n].c = "StartCapture" /\ log[n].i = i /\ ~log[n].sent

\* C6: when the handler before dropped the StartCapture of a stream for lack
\* of an instance, a recomputation that still finds the stream visible issues
\* StartCapture for it again.
C6_RetryDropped ==
    [][\A i \in Indexes :
          (AnyPass /\ Dropped(i) /\ i \in StreamsOf(previousVisiblePanelIds'))
              => Count("StartCapture", i) >= 1]_vars

----------------------------------------------------------------------------
(* C7 *)

\* C7 as stated: an index leaves the active set only when its debounced stop
\* fires, not when its panels stop being visible.
C7_Original ==
    [][\A i \in Indexes :
          (i \in activeUnityIndexes /\ i \notin activeUnityIndexes') => TimerFired(i)]_vars

ActiveIsVisible ==
    phase = "mounted" => activeUnityIndexes = StreamsOf(previousVisiblePanelIds)

\* C7 amended: while mounted the active set is the set of streams of the
\* panels found visible by the latest recomputation, so an index leaves it in
\* the recomputation in which its panels stop being visible; what waits for
\* the debounce is StopCapture, sent only when the stop timer fires and finds
\* the index outside the set.
C7_Amended ==
    /\ []ActiveIsVisible
    /\ [][\A i \in Indexes :
            Count("StopCapture", i) > 0 => TimerFired(i) /\ i \notin activeUnityIndexes]_vars

C7_Witness ==
    \E i \in Indexes :
        /\ phase = "mounted"
        /\ Logged("schedule", i)
        /\ i \notin activeUnityIndexes
        /\ Pending(liveStopTimers, i) # {}

----------------------------------------------------------------------------
(* C8 *)

\* C8 as stated: a frame is never destroyed by a grace timer whose stream was
\* reactivated after the timer was armed.
C8_Original == \A i \in Indexes : ~Logged("evictReturned", i)

\* C8 amended: the cached frame of a stopped stream is destroyed only by a
\* grace timer that finds the index outside the active set at the instant it
\* fires; a reactivation in between does not protect the frame.
C8_Amended ==
    [][\A i \in Indexes :
          (unityImagesRef[i] # 0 /\ unityImagesRef'[i] = 0)
              => GraceFired(i) /\ i \notin activeUnityIndexes]_vars

C8_Witness == \E i \in Indexes : Logged("evictReturned", i) /\ unityImagesRef[i] = 0

----------------------------------------------------------------------------
(* C9 *)

Arrived(i) ==
    Count("create", i) + Count("same", i) + Count("overwrite", i)
        + Count("unheard", i) > 0

RepaintGate(i) ==
    Arrived(i) =>
        /\ latestByIndex'[i] # 0
        /\ latestByIndex'[i] = lastDelivered'[i]
        /\ listening => unityImagesRef'[i] = lastDelivered'[i]
        /\ Count("redraw", i) > 0 => i \in activeUnityIndexes
        /\ (listening /\ i \in activeUnityIndexes) =>
              Count("redraw", i) = 1 /\ needsRedraw'
        /\ i \notin activeUnityIndexes =>
              needsRedraw' = needsRedraw /\ animationFrameRef' = animationFrameRef

\* C9: a received frame is stored (by CaptureManager always, by the component
\* while it listens); it requests a repaint only if its index is in the active
\* set on arrival, and a frame for an index outside the set requests none.
C9_RepaintGate == [][\A i \in Indexes : RepaintGate(i)]_vars

C9_Witness ==
    \E i \in Indexes :
        /\ Logged("skip", i)
        /\ i \notin activeUnityIndexes
        /\ unityImagesRef[i] # 0
        /\ ~needsRedraw

----------------------------------------------------------------------------
(* C10 *)

LatestHeld ==
    /\ latestByIndex = lastDelivered
    /\ listening => \A i \in Indexes : unityImagesRef[i] \in {0, lastDelivered[i]}

OthersUntouched(i) ==
    Arrived(i) =>
        /\ listening => unityImagesRef'[i] = lastDelivered'[i]
        /\ \A j \in Indexes \ {i} :
              /\ unityImagesRef'[j] = unityImagesRef[j]
              /\ latestByIndex'[j] = latestByIndex[j]

\* C10: latest wins.  CaptureManager holds for every index the most recently
\* delivered frame; a cached image of the listening component is the most
\* recently delivered frame of its index; a delivery replaces the entry of
\* its own index and leaves every other entry unchanged.
C10_LatestWins == []LatestHeld /\ [][\A i \in Indexes : OthersUntouched(i)]_vars

\* put(0, A), put(0, B): the cache returns B.
C10_Witness ==
    /\ Logged("overwrite", 0)
    /\ unityImagesRef[0] = 2
    /\ latestByIndex[0] = 2

----------------------------------------------------------------------------
(* C11 *)

Evicted(i) == Logged("evict", i) \/ Logged("evictReturned", i)

\* C11: right after the frame of an index was evicted no lookup returns a
\* frame for it: neither the component's image map nor
\* CaptureManager.getLatest holds one.
C11_EvictedIsAbsent ==
    \A i \in Indexes :
        Evicted(i) => unityImagesRef[i] = 0 /\ latestByIndex[i] = 0

----------------------------------------------------------------------------
(* C12 *)

\* C12: at most one render callback is pending at any time, and once the
\* requests made since the last paint are committed a render callback is
\* pending, so that the next display tick paints exactly once.
C12_Coalescing ==
    /\ rafTable <= 1
    /\ (phase = "mounted" /\ owed /\ stateQueue = <<>>) => rafTable = 1

----------------------------------------------------------------------------
(* C13 *)

StartsFirst ==
    \A n, m \in 1 .. Len(log') :
        (log'[n].c \in {"StartCapture", "cancel"} /\ log'[m].c = "schedule") => n < m

\* The indexes the pass of this step handled in its start loop / stop loop.
Entered == {i \in Indexes : Count("StartCapture", i) + Count("cancel", i) > 0}
Left == {i \in Indexes : Count("schedule", i) > 0}

OneSnapshot(A) ==
    LET V == StreamsOf(previousVisiblePanelIds')
    IN  /\ Entered = V \ A
        /\ Left = A \ V
        /\ activeUnityIndexes' = V

\* C13: in one recomputation every StartCapture (and every cancellation) comes
\* before the first stop timer is scheduled; the started indexes are exactly
\* V \ A and the scheduled ones exactly A \ V for one and the same previous
\* active set A and new visible set V, and only then the active set becomes V.
C13_StartBeforeStop ==
    [][/\ AnyPass => StartsFirst
       /\ SinglePass => OneSnapshot(activeUnityIndexes)
       /\ ReadyPass => OneSnapshot({})]_vars

C13_Witness ==
    \E n, m, k \in 1 .. Len(log) :
        /\ n < m /\ m < k
        /\ log[n].c = "StartCapture"
        /\ log[m].c = "StartCapture"
        /\ log[k].c = "schedule"
        /\ activeUnityIndexes = {log[n].i, log[m].i}

----------------------------------------------------------------------------
(* C14 *)

\* Decimal text of the numbers used, written out.
Digits(n) ==
    CASE n = 0 -> "0" [] n = 1 -> "1" [] n = 2 -> "2"
      [] n = 250 -> "250" [] n = 500 -> "500"

WireOf(e) ==
    CASE e.c = "StartCapture" ->
             /\ e.target = "Bridge"
             /\ e.payload = "index=" \o Digits(e.i) \o ";intervalMs=" \o Digits(e.ms)
      [] e.c = "StopCapture" ->
             /\ e.target = "Bridge"
             /\ e.payload = "index=" \o Digits(e.i)
      [] e.c = "SetInterval" ->
             /\ e.target = "Bridge"
             /\ e.payload = "index=" \o Digits(e.i) \o ";intervalMs=" \o Digits(e.ms)
      [] OTHER -> TRUE

WireFormat ==
    \A n \in 1 .. Len(log) :
        /\ WireOf(log[n])
        /\ (log[n].c = "StartCapture" /\ Logged("pass", -1)) => log[n].ms = 500

DefaultInterval ==
    \A i \in Indexes :
        CallStartCapture(i, <<>>) =>
            log'[1].payload = "index=" \o Digits(i) \o ";intervalMs=500"

\* C14: every command goes to "Bridge"; StartCapture and SetInterval carry
\* exactly "index=N;intervalMs=M" and StopCapture exactly "index=N"; a start
\* without an interval carries 500, as does every start of the coordinator;
\* SetInterval is sent like that for any index, visible or not.
C14_WireFormat == []WireFormat /\ [][DefaultInterval]_vars

C14_Witness ==
    /\ phase = "mounted"
    /\ Len(log) = 1
    /\ log[1].c = "SetInterval"
    /\ log[1].sent
    /\ log[1].i \notin activeUnityIndexes
    /\ log[1].payload = "index=2;intervalMs=250"

----------------------------------------------------------------------------
(* C15 *)

IsCommand(e) == e.c \in {"StartCapture", "StopCapture", "SetInterval"}

DirectCall ==
    \/ \E i \in Indexes, m \in Intervals : CallStartCapture(i, <<m>>)
    \/ \E i \in Indexes : CallStartCapture(i, <<>>)
    \/ \E i \in Indexes : CallStopCapture(i)
    \/ \E i \in Indexes, m \in Intervals : CallSetInterval(i, m)

NoInstanceNoEffect ==
    /\ \A n \in 1 .. Len(log') :
          IsCommand(log'[n]) =>
              /\ log'[n].sent <=> unityInstance
              /\ ~unityInstance => ~log'[n].thrown
    /\ (DirectCall /\ ~unityInstance) =>
          /\ ~log'[1].sent
          /\ UNCHANGED <<phase, range, previousVisiblePanelIds, visiblePanelIds, fired, lastEvent,
                         activeUnityIndexes, unityStopTimers, liveStopTimers,
                         graceTimers, unityImagesRef, latestByIndex,
                         needsRedraw, animationFrameRef, rafTable, stateQueue,
                         rafId, scrollFrames, initialCheckTimer,
                         unityCheckInterval, unityCheckAttempts, readyTimeouts,
                         unityInstance, sendThrows, isBridgeReady, installed,
                         listening, cmHasVisible, cmTimer, cmIntervals>>
    /\ (~unityInstance /\ unityInstance') =>
          \A n \in 1 .. Len(log') : ~IsCommand(log'[n])

----------------------------------------------------------------------------
(* C16 *)

Consistent ==
    /\ phase = "mounted" => activeUnityIndexes = StreamsOf(previousVisiblePanelIds)
    /\ \A i \in Indexes :
          unityStopTimers[i] # 0 => <<i, unityStopTimers[i]>> \in liveStopTimers
    /\ rafId => scrollFrames > 0

\* C16: no handler ends by an uncaught exception, and after every handler the
\* prior visible ids, the active set, the stop-timer map and the scroll
\* handler's frame request are consistent.
C16_NoPropagation ==
    /\ \A n \in 1 .. Len(log) : log[n].c # "uncaught"
    /\ Consistent

----------------------------------------------------------------------------
(* C17 *)

\* C17: a frame that cannot be decoded is dropped: it never becomes the
\* cached frame of its index, in the component's image map or in
\* CaptureManager.
C17_MalformedDropped ==
    \A i \in Indexes :
        unityImagesRef[i] # MalformedFrame /\ latestByIndex[i] # MalformedFrame

----------------------------------------------------------------------------
(* C18 *)

StatusMoves ==
    {<<"idle", "loading">>, <<"loading", "ready">>, <<"loading", "error">>,
     <<"idle", "ready">>}

\* The race of attempt n is lost in this step: its loader rejects or its
\* timer fires first.
Failed(n) ==
    /\ n <= Len(attempts)
    /\ attempts[n].race = "pending"
    /\ attempts'[n].race = "rejected"

Reported ==
    /\ status' = "error"
    /\ error' \in {LoadFailed, TimedOut}
    /\ error' = IF \E n \in 1 .. Len(attempts) :
                      attempts[n].load = "pending" /\ attempts'[n].load = "rejected"
                THEN LoadFailed ELSE TimedOut

StatusWalk ==
    /\ status' # status => <<status, status'>> \in StatusMoves
    /\ status \in {"ready", "error"} => status' = status
    /\ status = "error" => error' = error

\* C18, as stated: the status only moves idle -> loading -> ready,
\* idle -> loading -> error or idle -> ready, ready and error are never left,
\* and every lost race, by a rejecting loader or by the 90 s timer, ends in
\* status error with the message recorded.
C18_Original ==
    [][StatusWalk /\ \A n \in 1 .. MaxEffects : Failed(n) => Reported]_vars

\* C18, amended: the same, for the lost race of an attempt whose effect has
\* not been cleaned up; the lost race of a cleaned-up attempt changes neither
\* the status nor the message.
C18_Amended ==
    [][/\ StatusWalk
       /\ \A n \in 1 .. MaxEffects :
             Failed(n) => IF attempts[n].mounted
                          THEN Reported
                          ELSE UNCHANGED <<status, error>>]_vars

\* Both failures have been reported, one per run of the model: here the
\* timer won against a loader that is still pending.
C18_Witness ==
    \E n \in 1 .. Len(attempts) :
        /\ attempts[n].mounted
        /\ attempts[n].race = "rejected"
        /\ attempts[n].timeout = "fired"
        /\ attempts[n].load = "pending"
        /\ status = "error"
        /\ error = TimedOut

----------------------------------------------------------------------------
(* C19 *)

\* The loader of attempt n completes in this step after its timer won.
LateSuccess(n) ==
    /\ n <= Len(attempts)
    /\ attempts[n].timeout = "fired"
    /\ attempts[n].race = "rejected"
    /\ attempts[n].load = "pending"
    /\ attempts'[n].load = "resolved"

\* C19: the timer's firing leaves the loader running; when that loader
\* completes later it stores the instance on window, and a status of error
\* stays error with its message.
C19_LateSuccess ==
    [][\A n \in 1 .. MaxEffects :
          /\ (n <= Len(attempts) /\ attempts[n].timeout = "pending"
                /\ attempts'[n].timeout = "fired")
                => attempts'[n].load = attempts[n].load
          /\ LateSuccess(n) =>
                /\ unityInstance'
                /\ status = "error" => status' = "error" /\ error' = error]_vars

\* The timeout was reported and the loader has completed since.
C19_Witness ==
    \E n \in 1 .. Len(attempts) :
        /\ attempts[n].mounted
        /\ attempts[n].timeout = "fired"
        /\ attempts[n].race = "rejected"
        /\ attempts[n].load = "resolved"
        /\ unityInstance
        /\ status = "error"
        /\ error = TimedOut

----------------------------------------------------------------------------
(* C20 *)

ZeroSize(rng, viewportWidth) == rng[1] = rng[2] \/ viewportWidth = 0

\* C20: every ratio lies in [0, 1] and is a well-defined fraction; it is 0
\* for a panel of area 0 and for a window of zero height or zero width, in
\* which case the panel is visible at neither threshold; a recomputation
\* over a window of zero height leaves no panel visible, whatever was
\* visible before.
C20_RatioBounds ==
    /\ probe.called =>
          /\ probe.ratio.den > 0
          /\ 0 <= probe.ratio.num /\ probe.ratio.num <= probe.ratio.den
          /\ probe.panel.width * probe.panel.height = 0 => probe.ratio.num = 0
          /\ ZeroSize(probe.range, probe.viewportWidth) =>
                probe.ratio.num = 0 /\ ~probe.kept /\ ~probe.entered
    /\ (phase = "mounted" /\ ZeroSize(range, scene.viewportWidth)) =>
          previousVisiblePanelIds = {} /\ activeUnityIndexes = {}

\* A panel that the full window shows entirely was measured against an
\* empty window, and a recomputation over an empty window followed one that
\* had found panels visible.
C20_Witness ==
    /\ probe.called
    /\ probe.panel.width * probe.panel.height > 0
    /\ ZeroSize(probe.range, probe.viewportWidth)
    /\ phase = "mounted"
    /\ ZeroSize(range, scene.viewportWidth)
    /\ \E n \in 1 .. Len(log) : log[n].c = "schedule"

----------------------------------------------------------------------------
(* C21 *)

\* Nothing was sent, cancelled or scheduled for index i in this step.
Quiet(i) == Count("StartCapture", i) = 0 /\ Count("schedule", i) = 0

----------------------------------------------------------------------------
(* C22 *)

\* The canvas shows the latest frame received for stream i.
Shown(i) == painted[i] # 0 /\ painted[i] = lastDelivered[i]

\* C22: when a frame has been received for a stream that is visible, a paint
\* eventually draws that frame or a newer one of the stream, with no further
\* scroll event and no further frame needed.
C22_FramePainted ==
    \A i \in FrameIndexes :
        (phase = "mounted" /\ i \in activeUnityIndexes /\ lastDelivered[i] # 0)
            ~> Shown(i)

----------------------------------------------------------------------------
(* C23 *)

ZOf(p) == IF p.zIndex = <<>> THEN 0 ELSE p.zIndex[1]

\* C23: a paint draws every panel of the list exactly once, in ascending
\* zIndex with a missing zIndex counted as 0, panels of equal zIndex in
\* ascending y, and leaves the scene's own list in its order.
C23_DrawOrder ==
    drawn.called =>
        /\ Len(drawn.order) = Len(drawn.before)
        /\ \A n \in 1 .. Len(drawn.before) :
              \E m \in 1 .. Len(drawn.order) : drawn.order[m] = drawn.before[n]
        /\ \A m \in 1 .. Len(drawn.order) - 1 :
              LET a == drawn.order[m]
                  b == drawn.order[m + 1]
              IN  \/ ZOf(a) < ZOf(b)
                  \/ ZOf(a) = ZOf(b) /\ a.y <= b.y
        /\ drawn.after = drawn.before

\* A list that is drawn in another order than it is stored: the panel with a
\* negative zIndex first, then the two panels without zIndex, which stand
\* first and last in the list, the lower y first.
C23_Witness ==
    /\ drawn.called
    /\ drawn.order[1].zIndex = <<-1>>
    /\ drawn.order[2].zIndex = <<>>
    /\ drawn.order[3].zIndex = <<>>
    /\ drawn.order[2].y < drawn.order[3].y
    /\ drawn.before[1] = drawn.order[3]
    /\ drawn.before[3] = drawn.order[2]

----------------------------------------------------------------------------
(* C24 *)

\* C24: a StartCapture is handed to the renderer whenever an instance exists
\* that takes it, whether or not the bridge has signalled readiness; a start
\* issued before the signal carries the warning, one issued after it does
\* not.
C24_SentBeforeReady ==
    [][\A n \in 1 .. Len(log') :
          log'[n].c = "StartCapture" =>
              /\ log'[n].sent <=> (unityInstance /\ ~sendThrows)
              /\ log'[n].bridgeWarning <=> ~isBridgeReady]_vars

\* A start that was sent with the warning: the instance exists, the bridge
\* has not signalled.
C24_Witness ==
    /\ unityInstance
    /\ ~isBridgeReady
    /\ \E n \in 1 .. Len(log) :
          /\ log[n].c = "StartCapture"
          /\ log[n].sent
          /\ log[n].bridgeWarning

----------------------------------------------------------------------------
(* C25 *)

\* Stream i was last told to capture and nothing is left that would stop it.
Leaked(i) ==
    /\ lastCommand[i] = "StartCapture"
    /\ i \notin activeUnityIndexes
    /\ Pending(liveStopTimers, i) = {}

\* C25: while the component is mounted, a stream whose last command was
\* StartCapture is in the recorded visible stream set or has a pending stop
\* timer.
C25_NoLeak == phase = "mounted" => \A i \in Indexes : ~Leaked(i)

\* The same in every state, the ones after the unmount included.
C25_NoLeakEver == \A i \in Indexes : ~Leaked(i)

----------------------------------------------------------------------------
(* C26 *)

\* The StartCapture and StopCapture calls for index i among the events ev, in
\* the order they were made.
CommandsOf(ev, i) ==
    SelectSeq(ev, LAMBDA e : e.c \in {"StartCapture", "StopCapture"} /\ e.i = i)

\* The calls cs continue the alternation Start, Stop, Start, ... after a last
\* command of last ("none" when there was no command yet).
RECURSIVE Alternates(_, _)
Alternates(last, cs) ==
    \/ cs = <<>>
    \/ /\ cs # <<>>
       /\ Head(cs).c = (IF last = "StartCapture" THEN "StopCapture"
                                                  ELSE "StartCapture")
       /\ Alternates(Head(cs).c, Tail(cs))

\* C26: outside the recomputation forced by the renderer-ready reset, the
\* commands a handler issues for an index continue the alternation
\* StartCapture, StopCapture, StartCapture, ... that begins with StartCapture.
C26_Alternation ==
    [][~ReadyPass =>
          \A i \in Indexes : Alternates(lastCommand[i], CommandsOf(log', i))]_vars

\* The part on StopCapture alone, the reset's recomputation included: a
\* StopCapture is issued only to an index whose last command was StartCapture.
C26_StopAfterStart ==
    [][\A i \in Indexes :
          LET cs == CommandsOf(log', i)
          IN  \A n \in 1 .. Len(cs) :
                  cs[n].c = "StopCapture" =>
                      (IF n = 1 THEN lastCommand[i] ELSE cs[n - 1].c)
                          = "StartCapture"]_vars

----------------------------------------------------------------------------
(* C27 *)

\* C27: an index in the recorded visible stream set has no pending stop timer,
\* and no index has more than one pending stop timer.
C27_TimerExclusion ==
    \A i \in Indexes :
        /\ i \in activeUnityIndexes => Pending(liveStopTimers, i) = {}
        /\ Cardinality(Pending(liveStopTimers, i)) <= 1

\* A returning index had its stop timer cancelled while another index that
\* left still waits for its own.
C27_Witness ==
    \E i, j \in Indexes :
        /\ Logged("cancel", i)
        /\ i \in activeUnityIndexes
        /\ Pending(liveStopTimers, i) = {}
        /\ j \notin activeUnityIndexes
        /\ Cardinality(Pending(liveStopTimers, j)) = 1

----------------------------------------------------------------------------
(* C28 *)

\* C28: for every index of the recorded visible stream set the most recent
\* command issued is StartCapture.
C28_VisibleStarted ==
    \A i \in activeUnityIndexes : lastCommand[i] = "StartCapture"

\* The recomputation after the renderer-ready reset found an index visible
\* whose stop timer was still pending: the timer was cancelled, no command was
\* issued, and the last command of the index is the StartCapture from before.
C28_Witness ==
    \E i \in activeUnityIndexes :
        /\ \E n \in 1 .. Len(log) : log[n] = ResetMark
        /\ Logged("cancel", i)
        /\ ~Logged("StartCapture", i)
        /\ lastCommand[i] = "StartCapture"

----------------------------------------------------------------------------
(* C29 *)

\* C29: once the component is unmounted no handler issues StartCapture or
\* StopCapture and none requests a redraw.
C29_QuietAfterUnmount ==
    [][phase = "unmounted" =>
          /\ \A n \in 1 .. Len(log') :
                log'[n].c \notin {"StartCapture", "StopCapture", "redraw"}
          /\ needsRedraw' => needsRedraw
          /\ animationFrameRef' => animationFrameRef]_vars

\* After the unmount a frame was delivered that nobody heard, and the
\* renderer-ready timeout armed before the unmount has just fired: the
\* recorded set is empty and a stream that was capturing got no command.
C29_Witness ==
    /\ phase = "unmounted"
    /\ log = <<ResetMark>>
    /\ activeUnityIndexes = {}
    /\ lastDelivered[0] = 1
    /\ unityImagesRef[0] = 0
    /\ \E i \in Indexes : lastCommand[i] = "StartCapture"

----------------------------------------------------------------------------
(* C30 *)

\* The runs of the init effect that called loadUnity.
LoadCalls == {n \in 1 .. Len(attempts) : attempts[n].load # "none"}

\* C30: loadUnity is called at most once per page, however often the init
\* effect runs.
C30_SingleLoad == Cardinality(LoadCalls) <= 1

\* The same for completed constructions: at most one loadUnity call gets as far
\* as storing an instance.
C30_SingleInstance ==
    Cardinality({n \in LoadCalls : attempts[n].load = "resolved"}) <= 1

----------------------------------------------------------------------------
(* C31 *)

\* C31: an interval timer of the capture manager runs only while hasVisible is
\* set and the tab is visible, and at most one runs at a time.
C31_LoopOnlyWhenVisible ==
    /\ cmIntervals > 0 => cmHasVisible /\ isTabVisible
    /\ cmIntervals <= 1
    /\ cmTimer <=> cmIntervals = 1

\* The loop runs again, with the interval a setInterval call gave it, after
\* the tab had been hidden and shown.
C31_Witness ==
    /\ cmIntervals = 1
    /\ cmIntervalMs = 250
    /\ log = <<Note("shown", -1)>>

----------------------------------------------------------------------------
(* C32 *)

\* The callbacks fired for panel id among the calls ev, in order.
CallbacksOf(ev, id) ==
    LET own == SelectSeq(ev, LAMBDA e : e.id = id)
    IN  [n \in 1 .. Len(own) |-> own[n].cb]

\* What the recomputation of this step owes panel id: one enter when it became
\* visible, one leave when it stopped being visible, nothing otherwise.
OwedCallbacks(id) ==
    IF id \in previousVisiblePanelIds' \ previousVisiblePanelIds THEN <<"enter">>
    ELSE IF id \in previousVisiblePanelIds \ previousVisiblePanelIds'
    THEN <<"leave">>
    ELSE <<>>

\* C32: with the callbacks passed, a recomputation fires for every panel
\* exactly the callback its change of visibility calls for, and that callback
\* differs from the last one fired for the panel, the first being an enter.
C32_EnterLeave ==
    [][(AnyPass /\ callbacksGiven) =>
          \A id \in PanelIds :
              /\ CallbacksOf(fired', id) = OwedCallbacks(id)
              /\ \A n \in 1 .. Len(CallbacksOf(fired', id)) :
                    CallbacksOf(fired', id)[n] #
                        (IF n > 1 THEN CallbacksOf(fired', id)[n - 1]
                         ELSE IF lastEvent[id] = "none" THEN "leave"
                         ELSE lastEvent[id])]_vars

\* The same where every updater is called once (no StrictMode).
C32_EnterLeaveSingleRender ==
    [][(AnyPass /\ callbacksGiven /\ ~strictMode) =>
          \A id \in PanelIds :
              /\ CallbacksOf(fired', id) = OwedCallbacks(id)
              /\ \A n \in 1 .. Len(CallbacksOf(fired', id)) :
                    CallbacksOf(fired', id)[n] #
                        (IF n > 1 THEN CallbacksOf(fired', id)[n - 1]
                         ELSE IF lastEvent[id] = "none" THEN "leave"
                         ELSE lastEvent[id])]_vars

----------------------------------------------------------------------------
(* C33 *)

\* The render callback has just run: drawCanvas painted.
Painted == log = <<Note("paint", -1)>>

\* C33: whenever a redraw has been requested on the mounted component and not
\* been painted yet, a paint eventually executes (or the component is
\* unmounted).
C33_RedrawNotLost ==
    (phase = "mounted" /\ owed) ~> (Painted \/ phase # "mounted")

----------------------------------------------------------------------------
(* C34 *)

\* The step is a call of installUnityReceiverBridge made with or without a
\* window.
InstallStep(hasWindow) ==
    /\ Len(log') = 1
    /\ log'[1].c = "install"
    /\ log'[1].payload = (IF hasWindow THEN "window" ELSE "no window")

\* The step is a call of the installed handler with or without an index.
ReceivedStep(how) ==
    /\ Len(log') >= 1
    /\ log'[1].c = "received"
    /\ log'[1].payload = how

\* C34: the first install call made in a browser sets the flag and assigns
\* the handler; a call made once the flag is set changes neither the flag nor
\* the window property; a call made without a window changes neither; and the
\* handler forwards to emit under the index it was given, 0 when none was.
C34_InstallOnce ==
    [][/\ \A hasWindow \in BOOLEAN :
             InstallStep(hasWindow) =>
                 IF installed \/ ~hasWindow
                 THEN installed' = installed /\ receiver' = receiver
                 ELSE installed' /\ receiver' = "bridge"
       /\ ReceivedStep("default") =>
             /\ log'[1].i = 0
             /\ lastDelivered'[0] \in Frames
             /\ latestByIndex'[0] = lastDelivered'[0]
             /\ \A i \in Indexes \ {0} : latestByIndex'[i] = latestByIndex[i]
       /\ ReceivedStep("given") =>
             /\ latestByIndex'[log'[1].i] = lastDelivered'[log'[1].i]
             /\ \A i \in Indexes \ {log'[1].i} :
                   latestByIndex'[i] = latestByIndex[i]]_vars

\* A later install call has just left another page's handler in place: the
\* flag is set and the window property is not the bridge's.
C34_Witness ==
    /\ installed
    /\ receiver = "other"
    /\ Len(log) = 1
    /\ log[1].c = "install"
    /\ log[1].payload = "window"
    /\ lastDelivered[0] \in Frames

----------------------------------------------------------------------------
(* C35 *)

\* C35: at most one frame callback of the scroll handler is pending; a scroll
\* event recomputes nothing and leaves one callback pending however many
\* events came before it; the callback runs exactly one recomputation; and
\* after the unmount no callback is pending.
C35_ScrollCoalescing ==
    [][/\ scrollFrames' <= 1
       /\ phase' = "unmounted" => scrollFrames' = 0
       /\ range' # range => (~AnyPass /\ scrollFrames' = 1)
       /\ (scrollFrames' < scrollFrames /\ phase' = phase) =>
             (Marks(PassMark) = 1 /\ range' = range)]_vars

\* Two scroll events, away and back, since the last recomputation, and one
\* callback pending for both.
C35_Witness ==
    /\ phase = "mounted"
    /\ scrollFrames = 1
    /\ range = <<0, 100>>
    /\ previousVisiblePanelIds = NewVisibleIds({}, <<0, 100>>)
    /\ previousVisiblePanelIds # {}

====
